---- MODULE Spec2Model ----
(***************************************************************************)
(* Verification model of the monthly metrics pipeline.                     *)
(*                                                                         *)
(*   - Cash Balance Reconstructor                                          *)
(*       src/Dashboard_Data_Pipeline/data_pipeline/HD/Transform/           *)
(*           transform_HD_daily_ledger.py                                  *)
(*   - Metrics engine  src/metrics_pipeline.py                             *)
(*                                                                         *)
(* Conventions.  Money is an integer number of thousandths of a euro, so   *)
(* that rounding to 2 decimals (a multiple of 10) is a real conversion.    *)
(* Binary floating point error is not modelled: a float is the exact       *)
(* decimal it was written as.  A month string "YYYY-MM" is the pair        *)
(* <<YYYY, MM>>; an account code or a tag is the tuple of its characters.  *)
(* A cell that may be missing / null / NaN is <<>> when it is and <<v>>    *)
(* when it holds v.                                                        *)
(***************************************************************************)
EXTENDS Integers, Sequences, FiniteSets, TLC

VARIABLES
    rawLedger,     \* file RAW_LEDGER:   [exists, data]  data = list of windows
    rawSnapshot,   \* file RAW_SNAPSHOT: [exists, data]  data = list of accounts
    cleanOut,      \* file CLEAN_OUT:    [exists, cols, data]
    cashOpened,    \* the input files build_monthly_from_ledger has opened
    cashResult,    \* "pending", "ok", or the name of the exception raised
    csv,           \* the clean source tables on disk, by name
    cash_balance,  \* the --cash argument of the metrics engine
    frames,        \* the DataFrames run_pipeline has loaded, by name
    mt,            \* the metric tables computed so far, by variable name
    df_final,      \* the merged table
    finalCsv,      \* file final_metrics_latest.csv: [exists, cols, rows]
    pc,            \* the statement of run_pipeline that runs next
    pipeResult,    \* "running", "ok", or the name of the exception raised
    pipeError,     \* what the exception raised says: <<table, missing columns>>
                   \* of validate_columns, <<key>> of a KeyError
    allPc,         \* the statement of run_all.py's run_pipeline that runs next
    status_summary,\* run_all.py: <<script, status>> of each script it has run
    allExit,       \* run_all.py: "running", or "0" once the run is reported completed
    apiPc,         \* run_api_scripts.py: "idle", "loop", "script_running", "exited"
    apiNext,       \* run_api_scripts.py: position in scripts of the loop
    results,       \* run_api_scripts.py: <<script, status>> of each script, in order
    apiExit,       \* run_api_scripts.py: "none", or its exit code "0" or "1"
    started,       \* the scripts started as subprocesses so far, in order
    running,       \* the subprocesses that have started and not ended, outermost first
    calls,         \* collect_entries_no_truncation: the calls still to make,
                   \* next first, each <<start_date, end_date, depth>>
    leaves,        \* the windows whose entries were returned as fetched, in
                   \* order: [start_date, end_date, entries], entries a count
    ledgerResult   \* "idle", "running", "returned", or the exception raised

cashVars == <<rawLedger, rawSnapshot, cashOpened, cashResult>>

engineVars == <<csv, cash_balance, frames, mt, df_final, finalCsv, pc, pipeResult,
               pipeError>>

orchVars == <<allPc, status_summary, allExit, apiPc, apiNext, results, apiExit, started,
              running>>

ledgerVars == <<calls, leaves, ledgerResult>>

vars == <<rawLedger, rawSnapshot, cleanOut, cashOpened, cashResult,
          csv, cash_balance, frames, mt, df_final, finalCsv, pc, pipeResult, pipeError,
          allPc, status_summary, allExit, apiPc, apiNext, results, apiExit, started,
          running, calls, leaves, ledgerResult>>

NULL == <<>>

Some(v) == <<v>>

----------------------------------------------------------------------------
(* Generic helpers                                                         *)

RECURSIVE SeqSum(_)
SeqSum(s) == IF s = <<>> THEN 0 ELSE s[1] + SeqSum(Tail(s))

Abs(x) == IF x < 0 THEN -x ELSE x

Range(s) == {s[i] : i \in DOMAIN s}

SeqsUpTo(S, n) == UNION {[1..k -> S] : k \in 0..n}

\* numpy/pandas round(2) on thousandths: nearest multiple of 10, a tie
\* (remainder 5) going to the even hundredth.
Round2(v) ==
    LET q == v \div 10
        r == v % 10
    IN  IF r < 5 THEN q * 10
        ELSE IF r > 5 THEN (q + 1) * 10
        ELSE IF q % 2 = 0 THEN q * 10 ELSE (q + 1) * 10

\* pd.to_datetime(month, format="%Y-%m"): the month as a point in time,
\* counted in months.
MonthDt(month) == month[1] * 12 + (month[2] - 1)

----------------------------------------------------------------------------
(* Cash Balance Reconstructor                                              *)

\* float(e.get(k, 0) or 0)
FloatOrZero(x) == IF x = NULL THEN 0 ELSE x[1]

\* Flatten entries -> (month, account, debit, credit)
RECURSIVE FlattenRows(_)
FlattenRows(windows) ==
    IF windows = <<>> THEN <<>>
    ELSE LET w == windows[1]
         IN  [i \in 1..Len(w.entries) |->
                 [month   |-> w.month,
                  account |-> w.entries[i].account,
                  debit   |-> FloatOrZero(w.entries[i].debit),
                  credit  |-> FloatOrZero(w.entries[i].credit)]]
             \o FlattenRows(Tail(windows))

\* str.startswith("57")
StartsWith57(account) ==
    Len(account) >= 2 /\ account[1] = "5" /\ account[2] = "7"

KeepCash(rows) == SelectSeq(rows, LAMBDA r : StartsWith57(r.account))

\* the distinct months of rows, ascending, as groupby orders its groups
RECURSIVE SetToSortedSeq(_)
SetToSortedSeq(S) ==
    IF S = {} THEN <<>>
    ELSE LET mx == CHOOSE x \in S : \A y \in S : MonthDt(y) <= MonthDt(x)
         IN  Append(SetToSortedSeq(S \ {mx}), mx)

RECURSIVE NetOfMonth(_, _)
NetOfMonth(rows, m) ==
    IF rows = <<>> THEN 0
    ELSE (IF rows[1].month = m THEN rows[1].debit - rows[1].credit ELSE 0)
         + NetOfMonth(Tail(rows), m)

\* assign(net = debit - credit).groupby("month")["net"].sum()
MonthlyChange(df_cash) ==
    LET months == SetToSortedSeq({df_cash[i].month : i \in DOMAIN df_cash})
    IN  [i \in 1..Len(months) |->
            [month |-> months[i], net_change |-> NetOfMonth(df_cash, months[i])]]

\* the columns of pd.DataFrame(data): none when the list is empty
SnapshotColumns(data) == UNION {DOMAIN data[i] : i \in DOMAIN data}

BalanceCandidates == <<"balance_eur", "balance", "amount", "currentBalance", "available">>

HasBalanceColumn(data) ==
    \E i \in DOMAIN BalanceCandidates : BalanceCandidates[i] \in SnapshotColumns(data)

\* pd.to_numeric(errors="coerce").fillna(0): a cell that is no number is NULL
NumericOrZero(x) == IF x = NULL THEN 0 ELSE x[1]

load_snapshot_total_eur(data) ==
    LET k    == CHOOSE i \in DOMAIN BalanceCandidates :
                    /\ BalanceCandidates[i] \in SnapshotColumns(data)
                    /\ \A j \in 1..(i - 1) : BalanceCandidates[j] \notin SnapshotColumns(data)
        cand == BalanceCandidates[k]
    IN  SeqSum([i \in DOMAIN data |->
                   IF cand \in DOMAIN data[i] THEN NumericOrZero(data[i][cand]) ELSE 0])

\* s with x inserted before the first row of a later month: the step of a
\* stable ascending sort on month_dt
RECURSIVE InsertByMonth(_, _)
InsertByMonth(x, s) ==
    IF s = <<>> THEN <<x>>
    ELSE IF MonthDt(s[1].month) > MonthDt(x.month) THEN <<x>> \o s
         ELSE <<s[1]>> \o InsertByMonth(x, Tail(s))

\* sort_values("month_dt").reset_index(drop=True)
RECURSIVE SortMonths(_)
SortMonths(monthly_change) ==
    IF monthly_change = <<>> THEN <<>>
    ELSE InsertByMonth(monthly_change[Len(monthly_change)],
                       SortMonths(SubSeq(monthly_change, 1, Len(monthly_change) - 1)))

\* a cumulative sum that is not reversed
RevCumChange_forward(nets) ==
    [i \in DOMAIN nets |-> SeqSum(SubSeq(nets, 1, i))]

\* series[::-1].cumsum()[::-1]
RevCumChange(nets) ==
    [i \in DOMAIN nets |-> SeqSum(SubSeq(nets, i, Len(nets)))]

\* the month's own change left inside the amount undone
CashBalance_own_change_undone(snapshot_total, rev_cum_change, net_change) ==
    snapshot_total - rev_cum_change

\* snapshot_total - (rev_cum_change - net_change)
CashBalance(snapshot_total, rev_cum_change, net_change) ==
    snapshot_total - (rev_cum_change - net_change)

ReconstructBalances(monthly_change, snapshot_total) ==
    LET sorted == SortMonths(monthly_change)
        nets   == [i \in DOMAIN sorted |-> sorted[i].net_change]
        rev    == RevCumChange(nets)
    IN  [i \in DOMAIN sorted |->
            [month            |-> sorted[i].month,
             cash_balance_eur |-> Round2(CashBalance(snapshot_total, rev[i], nets[i]))]]

CleanCols == <<"month", "cash_balance_eur">>

\* a file that does not exist
AbsentClean == [exists |-> FALSE, cols |-> <<>>, data |-> <<>>]

AbsentFile == [exists |-> FALSE, data |-> <<>>]

\* only the ledger file is checked before the work starts
MissingInput_ledger_only(ledger, snapshot) == ~ledger.exists

\* The two existence checks at the head of build_monthly_from_ledger.
MissingInput(ledger, snapshot) == ~ledger.exists \/ ~snapshot.exists

\* The handler as a whole: what it returns or raises, the file it leaves and
\* the inputs it opened.
build_monthly_from_ledger_run(ledger, snapshot, out) ==
    IF MissingInput(ledger, snapshot)
    THEN [result |-> "FileNotFoundError", out |-> out, opened |-> {}]
    ELSE
    LET df      == FlattenRows(ledger.data)
        df_cash == KeepCash(df)
        monthly == MonthlyChange(df_cash)
    IN  IF df = <<>>
        THEN [result |-> "ok",
              out    |-> [exists |-> TRUE, cols |-> CleanCols, data |-> <<>>],
              opened |-> {"RAW_LEDGER"}]
        ELSE IF ~HasBalanceColumn(snapshot.data)
        THEN [result |-> "ValueError", out |-> out,
              opened |-> {"RAW_LEDGER", "RAW_SNAPSHOT"}]
        ELSE IF monthly = <<>>
        THEN \* rev_cum_change.iloc[0] on an empty series
             [result |-> "IndexError", out |-> out,
              opened |-> {"RAW_LEDGER", "RAW_SNAPSHOT"}]
        ELSE [result |-> "ok",
              out    |-> [exists |-> TRUE, cols |-> CleanCols,
                          data |-> ReconstructBalances(
                                       monthly, load_snapshot_total_eur(snapshot.data))],
              opened |-> {"RAW_LEDGER", "RAW_SNAPSHOT"}]

----------------------------------------------------------------------------
(* Metrics engine: tables                                                  *)
(*                                                                         *)
(* A DataFrame is [cols, rows]: the column names in order and the rows,    *)
(* each row a function from column name to cell.  A date cell is           *)
(* <<y, m, d>>, or <<>> when missing or unparseable.                       *)

Table(cols, rows) == [cols |-> cols, rows |-> rows]

\* the string 'NaT' that a missing month is formatted as
NaTStr == <<0, 0>>

\* a date cell that is present and is no date
BadDate == <<0, 0, 0>>

\* pd.to_datetime(x, errors='coerce') of a date, a 'YYYY-MM' string or 'NaT'
ToDatetime(x) ==
    IF x = <<>> \/ x = NaTStr \/ x = BadDate THEN <<>>
    ELSE IF Len(x) = 2 THEN <<x[1], x[2], 1>>
    ELSE x

\* .dt.to_period('M').astype(str)
PeriodStr(dt) == IF dt = <<>> THEN NaTStr ELSE <<dt[1], dt[2]>>

ensure_month_format(x) == PeriodStr(ToDatetime(x))

\* position of a month string in lexicographic order: 'NaT' after any digit
KeyOrd(k) == IF k = NaTStr THEN 1000000 ELSE MonthDt(k)

RECURSIVE SortedKeys(_)
SortedKeys(S) ==
    IF S = {} THEN <<>>
    ELSE LET mx == CHOOSE x \in S : \A y \in S : KeyOrd(y) <= KeyOrd(x)
         IN  Append(SortedKeys(S \ {mx}), mx)

MonthsOf(rows) == {rows[i]["month"] : i \in DOMAIN rows}

RowsOfMonth(rows, k) == SelectSeq(rows, LAMBDA r : r["month"] = k)

\* row r with column c set to v
SetCol(r, c, v) == [x \in DOMAIN r \cup {c} |-> IF x = c THEN v ELSE r[x]]

\* row r restricted to the columns cs
Project(r, cs) == [x \in cs |-> r[x]]

\* DataFrame.rename(columns={old: new}); no effect when old is not a column
RenameCol(t, old, new) ==
    IF \A i \in DOMAIN t.cols : t.cols[i] # old THEN t
    ELSE Table([i \in DOMAIN t.cols |-> IF t.cols[i] = old THEN new ELSE t.cols[i]],
               [i \in DOMAIN t.rows |->
                   [x \in (DOMAIN t.rows[i] \ {old}) \cup {new} |->
                       IF x = new THEN t.rows[i][old] ELSE t.rows[i][x]]])

HasCol(t, c) == \E i \in DOMAIN t.cols : t.cols[i] = c

\* df['month'] = ensure_month_format(df[src])
AssignMonth(t, src) ==
    Table(IF HasCol(t, "month") THEN t.cols ELSE Append(t.cols, "month"),
          [i \in DOMAIN t.rows |->
              SetCol(t.rows[i], "month", ensure_month_format(t.rows[i][src]))])

\* the sign is kept
AbsCell_signed(c) == c

\* Series.abs(): NaN stays NaN
AbsCell(c) == IF c = NULL THEN NULL ELSE Some(Abs(c[1]))

\* df[c] = df[c].abs()
AbsCol(t, c) ==
    Table(t.cols, [i \in DOMAIN t.rows |-> SetCol(t.rows[i], c, AbsCell(t.rows[i][c]))])

\* sum of a column over rows, NaN skipped
RECURSIVE SumCol(_, _)
SumCol(rows, c) ==
    IF rows = <<>> THEN 0
    ELSE (IF rows[1][c] = NULL THEN 0 ELSE rows[1][c][1]) + SumCol(Tail(rows), c)

\* df.groupby('month', as_index=False)[cs].sum(): one row per month string,
\* groups in ascending order of the string
GroupBySum(t, cs) ==
    LET keys == SortedKeys(MonthsOf(t.rows))
    IN  Table(<<"month">> \o cs,
              [i \in DOMAIN keys |->
                  [x \in {"month"} \cup Range(cs) |->
                      IF x = "month" THEN keys[i]
                      ELSE Some(SumCol(RowsOfMonth(t.rows, keys[i]), x))]])

\* df[cs]
SelectCols(t, cs) ==
    Table(cs, [i \in DOMAIN t.rows |-> Project(t.rows[i], Range(cs))])

----------------------------------------------------------------------------
(* Metrics engine: MRR component calculators                               *)

calculate_mrr(df) ==
    GroupBySum(AssignMonth(df, "date"), <<"mrr">>)

\* expansion summed as reported
calculate_expansion_mrr_signed(df_mrr_components) ==
    GroupBySum(AssignMonth(RenameCol(df_mrr_components, "mrr-expansion", "expansion_mrr"),
                           "date"),
               <<"expansion_mrr">>)

calculate_expansion_mrr(df_mrr_components) ==
    LET df == AssignMonth(RenameCol(df_mrr_components, "mrr-expansion", "expansion_mrr"),
                          "date")
    IN  GroupBySum(AbsCol(df, "expansion_mrr"), <<"expansion_mrr">>)

calculate_contraction_mrr(df_mrr_components) ==
    LET df == AssignMonth(RenameCol(df_mrr_components, "mrr-contraction", "contraction_mrr"),
                          "date")
    IN  GroupBySum(AbsCol(df, "contraction_mrr"), <<"contraction_mrr">>)

calculate_new_mrr(df_mrr_components) ==
    LET df == AssignMonth(RenameCol(df_mrr_components, "mrr-new-business", "new_mrr"),
                          "date")
    IN  GroupBySum(df, <<"new_mrr">>)

calculate_churned_mrr(df_mrr_components) ==
    LET df == AssignMonth(RenameCol(df_mrr_components, "mrr-churn", "churned_mrr"),
                          "date")
    IN  GroupBySum(AbsCol(df, "churned_mrr"), <<"churned_mrr">>)

\* new_mrr + expansion_mrr - contraction_mrr - churned_mrr of one grouped row
NetNewOf(g) ==
    g["new_mrr"][1] + g["expansion_mrr"][1] - g["contraction_mrr"][1] - g["churned_mrr"][1]

calculate_net_new_mrr(df_mrr_components) ==
    LET renamed == RenameCol(RenameCol(RenameCol(RenameCol(df_mrr_components,
                       "mrr-new-business", "new_mrr"),
                       "mrr-expansion", "expansion_mrr"),
                       "mrr-contraction", "contraction_mrr"),
                       "mrr-churn", "churned_mrr")
        df      == AbsCol(AbsCol(AssignMonth(renamed, "date"), "churned_mrr"),
                          "contraction_mrr")
        grouped == GroupBySum(df, <<"new_mrr", "expansion_mrr", "contraction_mrr",
                                    "churned_mrr">>)
    IN  Table(<<"month", "net_new_mrr">>,
              [i \in DOMAIN grouped.rows |->
                  [x \in {"month", "net_new_mrr"} |->
                      IF x = "month" THEN grouped.rows[i]["month"]
                      ELSE Some(NetNewOf(grouped.rows[i]))]])

\* mrr * 12
ArrOf(mrr) == mrr * 12

calculate_arr(df_mrr_components) ==
    LET monthly_mrr == GroupBySum(AssignMonth(df_mrr_components, "date"), <<"mrr">>)
    IN  Table(<<"month", "arr">>,
              [i \in DOMAIN monthly_mrr.rows |->
                  [x \in {"month", "arr"} |->
                      IF x = "month" THEN monthly_mrr.rows[i]["month"]
                      ELSE Some(ArrOf(monthly_mrr.rows[i]["mrr"][1]))]])

----------------------------------------------------------------------------
(* Metrics engine: joins, quotients                                        *)

RECURSIVE Gcd(_, _)
Gcd(a, b) == IF b = 0 THEN a ELSE Gcd(b, a % b)

\* the float a / b (b # 0) as the reduced fraction <<numerator, denominator>>
Frac(a, b) ==
    LET g == Gcd(Abs(a), Abs(b))
        sg == IF b < 0 THEN -1 ELSE 1
    IN  <<sg * (a \div g), sg * (b \div g)>>

\* the columns whose cells are quotients
FracCols == {"cac", "cac_ltv_ratio"}

\* the number 0 as a cell of column c
ZeroOf(c) == IF c \in FracCols THEN Some(<<0, 1>>) ELSE Some(0)

NaNRow(cols) == [x \in Range(cols) \ {"month"} |-> NULL]

\* every row of ls with every row of rs, the rows of ls in turn
Cross(ls, rs) ==
    [p \in 1..(Len(ls) * Len(rs)) |->
        ls[((p - 1) \div Len(rs)) + 1] @@ rs[((p - 1) % Len(rs)) + 1]]

RECURSIVE JoinKeys(_, _, _)
JoinKeys(keys, L, R) ==
    IF keys = <<>> THEN <<>>
    ELSE LET k  == keys[1]
             lk == RowsOfMonth(L.rows, k)
             rk == RowsOfMonth(R.rows, k)
             here == IF rk = <<>> THEN [i \in DOMAIN lk |-> lk[i] @@ NaNRow(R.cols)]
                     ELSE IF lk = <<>> THEN [j \in DOMAIN rk |-> rk[j] @@ NaNRow(L.cols)]
                     ELSE Cross(lk, rk)
         IN  here \o JoinKeys(Tail(keys), L, R)

\* pd.merge(L, R, on='month', how='outer'): every month string of either side,
\* ascending; the columns of a side that has no row for the month are NaN; the
\* two sides share no column but month
MergeOuter(L, R) ==
    Table(L.cols \o SelectSeq(R.cols, LAMBDA c : c # "month"),
          JoinKeys(SortedKeys(MonthsOf(L.rows) \cup MonthsOf(R.rows)), L, R))

\* DataFrame.fillna(0)
FillNa0(t) ==
    Table(t.cols,
          [i \in DOMAIN t.rows |->
              [x \in DOMAIN t.rows[i] |->
                  IF x # "month" /\ t.rows[i][x] = NULL THEN ZeroOf(x) ELSE t.rows[i][x]]])

\* validate_columns: the required columns that df lacks
MissingColumns(df, required) == SelectSeq(required, LAMBDA c : ~HasCol(df, c))

----------------------------------------------------------------------------
(* Metrics engine: calculators that read the upstream metrics table        *)

\* df['month'] = ensure_month_format(df['month_start']); df[['month', value]]
UpstreamMetric(df_cm_metrics, value) ==
    SelectCols(AssignMonth(df_cm_metrics, "month_start"), <<"month", value>>)

calculate_arpa(df_cm_metrics) == UpstreamMetric(df_cm_metrics, "arpa")

calculate_customers(df_cm_metrics) == UpstreamMetric(df_cm_metrics, "customers")

calculate_customer_churn_rate(df_cm_metrics) ==
    UpstreamMetric(df_cm_metrics, "customer-churn-rate")

calculate_revenue_churn_rate(df_cm_metrics) ==
    UpstreamMetric(df_cm_metrics, "mrr-churn-rate")

calculate_ltv(df_cm_metrics) == UpstreamMetric(df_cm_metrics, "ltv")

----------------------------------------------------------------------------
(* Metrics engine: tagged costs                                            *)

UpperCase == <<"A", "B", "C", "D", "E", "F", "G", "H", "I", "J", "K", "L", "M",
               "N", "O", "P", "Q", "R", "S", "T", "U", "V", "W", "X", "Y", "Z">>

LowerCase == <<"a", "b", "c", "d", "e", "f", "g", "h", "i", "j", "k", "l", "m",
               "n", "o", "p", "q", "r", "s", "t", "u", "v", "w", "x", "y", "z">>

LowerChar(ch) ==
    IF \E i \in DOMAIN UpperCase : UpperCase[i] = ch
    THEN LowerCase[CHOOSE i \in DOMAIN UpperCase : UpperCase[i] = ch]
    ELSE ch

\* str.lower()
LowerStr(str) == [i \in DOMAIN str |-> LowerChar(str[i])]

\* str.contains(pat) with the case of the letters significant
ContainsNoCase_case_sensitive(str, pat) ==
    \E i \in 1..(Len(str) - Len(pat) + 1) : SubSeq(str, i, i + Len(pat) - 1) = pat

\* str.contains(pat, case=False) for a pattern of literal characters
ContainsNoCase(str, pat) ==
    \E i \in 1..(Len(str) - Len(pat) + 1) :
        LowerStr(SubSeq(str, i, i + Len(pat) - 1)) = LowerStr(pat)

\* fillna('').astype(str)
FillStr(cell) == IF cell = NULL THEN Some(<<>>) ELSE cell

\* df_contacts['tags'] = ...; df_contacts['type'] = ...  (on the caller's table)
NormalizeContacts(df_contacts) ==
    Table(df_contacts.cols,
          [i \in DOMAIN df_contacts.rows |->
              SetCol(SetCol(df_contacts.rows[i], "tags", FillStr(df_contacts.rows[i]["tags"])),
                     "type", FillStr(df_contacts.rows[i]["type"]))])

SupplierStr == <<"s", "u", "p", "p", "l", "i", "e", "r">>

\* the contact qualifies for the tag
MatchesTag(contact, tag) ==
    /\ ContainsNoCase(contact["tags"][1], tag)
    /\ LowerStr(contact["type"][1]) = SupplierStr

\* the ids of the contacts (tags and type already strings) that qualify
TaggedIds(df_contacts, tag) ==
    {df_contacts.rows[i]["id"] : i \in {j \in DOMAIN df_contacts.rows :
                                          MatchesTag(df_contacts.rows[j], tag)}}

\* the purchase is kept: its contact qualifies and it is confirmed
KeepPurchase(purchase, ids) ==
    purchase["contact"] \in ids /\ purchase["status"] = Some(1)

\* the monthly total_eur of the confirmed purchases of the tagged suppliers,
\* named as the bucket; a table without rows when there is none
TaggedCosts(df_purchases, df_contacts, tag, bucket) ==
    LET ids  == TaggedIds(NormalizeContacts(df_contacts), tag)
        kept == Table(df_purchases.cols,
                      SelectSeq(df_purchases.rows, LAMBDA r : KeepPurchase(r, ids)))
    IN  IF kept.rows # <<>>
        THEN RenameCol(GroupBySum(AssignMonth(kept, "date"), <<"total_eur">>),
                       "total_eur", bucket)
        ELSE Table(<<"month", bucket>>, <<>>)

TagOpex == <<"o", "p", "e", "x">>
TagCogs == <<"c", "o", "g", "s">>
TagCac == <<"c", "a", "c">>
TagFinancial == <<"c", "o", "s", "t", "e", "s", " ",
                  "f", "i", "n", "a", "n", "c", "i", "e", "r", "o", "s">>

calculate_opex(df_purchases, df_contacts) ==
    TaggedCosts(df_purchases, df_contacts, TagOpex, "opex")

calculate_cogs(df_purchases, df_contacts) ==
    TaggedCosts(df_purchases, df_contacts, TagCogs, "cogs")

calculate_financial_costs(df_purchases, df_contacts) ==
    TaggedCosts(df_purchases, df_contacts, TagFinancial, "financial_costs")

cac_costs(df_purchases, df_contacts) ==
    TaggedCosts(df_purchases, df_contacts, TagCac, "cac_costs")

----------------------------------------------------------------------------
(* Metrics engine: CAC, EBITDA, burn, runway                               *)

\* the rows of the month counted, a uuid once per row
NewCustomers_rows(df_cm_customers) ==
    LET known == AssignMonth(
                     Table(df_cm_customers.cols,
                           SelectSeq(df_cm_customers.rows,
                                     LAMBDA r : r["customer-since"] # NULL)),
                     "customer-since")
        keys  == SortedKeys(MonthsOf(known.rows))
    IN  Table(<<"month", "new_customers">>,
              [i \in DOMAIN keys |->
                  [x \in {"month", "new_customers"} |->
                      IF x = "month" THEN keys[i]
                      ELSE Some(Len(RowsOfMonth(known.rows, keys[i])))]])

\* df[df['customer-since'].notna()], month added,
\* groupby('month')['uuid'].nunique().reset_index(), renamed
NewCustomers(df_cm_customers) ==
    LET known == AssignMonth(
                     Table(df_cm_customers.cols,
                           SelectSeq(df_cm_customers.rows,
                                     LAMBDA r : r["customer-since"] # NULL)),
                     "customer-since")
        keys  == SortedKeys(MonthsOf(known.rows))
    IN  Table(<<"month", "new_customers">>,
              [i \in DOMAIN keys |->
                  [x \in {"month", "new_customers"} |->
                      IF x = "month" THEN keys[i]
                      ELSE LET rs == RowsOfMonth(known.rows, keys[i])
                           IN  Some(Cardinality({rs[j]["uuid"] : j \in DOMAIN rs}))]])

\* cac_costs / new_customers if new_customers > 0 else 0
CacOf(costs, customers) ==
    IF customers > 0 THEN Frac(costs, customers) ELSE <<0, 1>>

calculate_cac(df_purchases, df_contacts, df_cm_customers) ==
    LET df_cac == FillNa0(MergeOuter(NewCustomers(df_cm_customers),
                                     cac_costs(df_purchases, df_contacts)))
    IN  Table(<<"month", "cac_costs", "new_customers", "cac">>,
              [i \in DOMAIN df_cac.rows |->
                  df_cac.rows[i] @@
                  [x \in {"cac"} |-> Some(CacOf(df_cac.rows[i]["cac_costs"][1],
                                                df_cac.rows[i]["new_customers"][1]))]])

\* ltv / cac if cac > 0 else 0
CacLtvRatioOf(ltv, cac) ==
    IF cac[1] > 0 THEN Frac(ltv * cac[2], cac[1]) ELSE <<0, 1>>

calculate_cac_ltv_ratio(df_ltv, df_cac) ==
    LET df == FillNa0(MergeOuter(SelectCols(df_ltv, <<"month", "ltv">>),
                                 SelectCols(df_cac, <<"month", "cac">>)))
    IN  Table(<<"month", "cac_ltv_ratio">>,
              [i \in DOMAIN df.rows |->
                  [x \in {"month", "cac_ltv_ratio"} |->
                      IF x = "month" THEN df.rows[i]["month"]
                      ELSE Some(CacLtvRatioOf(df.rows[i]["ltv"][1], df.rows[i]["cac"][1]))]])

\* the acquisition spend left out
EbitdaOf_without_cac(r) ==
    r["mrr"][1] - (r["opex"][1] + r["cogs"][1] + r["financial_costs"][1])

\* mrr - (opex + cogs + financial_costs + cac_costs)
EbitdaOf(r) ==
    r["mrr"][1] - (r["opex"][1] + r["cogs"][1] + r["financial_costs"][1] + r["cac_costs"][1])

calculate_ebitda(df_mrr, df_opex, df_cogs, df_financial_costs, df_cac) ==
    LET df == FillNa0(MergeOuter(MergeOuter(MergeOuter(MergeOuter(
                  df_mrr, df_opex), df_cogs), df_financial_costs),
                  SelectCols(df_cac, <<"month", "cac_costs">>)))
    IN  Table(<<"month", "ebitda">>,
              [i \in DOMAIN df.rows |->
                  [x \in {"month", "ebitda"} |->
                      IF x = "month" THEN df.rows[i]["month"]
                      ELSE Some(EbitdaOf(df.rows[i]))]])

calculate_net_burn(df_purchases, df_cm_mrr_components) ==
    LET df_confirmed == AssignMonth(
                            Table(df_purchases.cols,
                                  SelectSeq(df_purchases.rows,
                                            LAMBDA r : r["status"] = Some(1))),
                            "date")
        df_costs   == RenameCol(GroupBySum(df_confirmed, <<"total_eur">>),
                                "total_eur", "total_costs")
        df_revenue == GroupBySum(AssignMonth(df_cm_mrr_components, "date"), <<"mrr">>)
        df_merged  == FillNa0(MergeOuter(df_costs, df_revenue))
    IN  Table(<<"month", "total_costs", "net_burn">>,
              [i \in DOMAIN df_merged.rows |->
                  [x \in {"month", "total_costs", "net_burn"} |->
                      IF x = "net_burn"
                      THEN Some(df_merged.rows[i]["total_costs"][1]
                                    - df_merged.rows[i]["mrr"][1])
                      ELSE df_merged.rows[i][x]]])

\* ebitda reported with its sign
calculate_burn_rate_signed(df_ebitda) ==
    RenameCol(SelectCols(df_ebitda, <<"month", "ebitda">>), "ebitda", "burn_rate")

calculate_burn_rate(df_ebitda) ==
    Table(<<"month", "burn_rate">>,
          [i \in DOMAIN df_ebitda.rows |->
              [x \in {"month", "burn_rate"} |->
                  IF x = "month" THEN df_ebitda.rows[i]["month"]
                  ELSE AbsCell(df_ebitda.rows[i]["ebitda"])]])

\* round(a / b, 2) as a number of hundredths, ties to the even hundredth
RoundedRatio(a, b) ==
    LET n == IF b < 0 THEN -(a * 100) ELSE a * 100
        d == Abs(b)
        q == n \div d
        r == n % d
    IN  IF 2 * r < d THEN q
        ELSE IF 2 * r > d THEN q + 1
        ELSE IF q % 2 = 0 THEN q ELSE q + 1

\* 0 reported for a month without burn
RunwayOf_zero_without_burn(cash, burn_rate) ==
    IF burn_rate = NULL \/ cash = NULL THEN NULL
    ELSE IF burn_rate[1] # 0 THEN Some(RoundedRatio(cash[1], burn_rate[1]))
    ELSE Some(0)

\* round(cash / burn_rate, 2) if burn_rate != 0 else None; a NaN operand
\* gives NaN, which is a null cell like None
RunwayOf(cash, burn_rate) ==
    IF burn_rate = NULL \/ cash = NULL THEN NULL
    ELSE IF burn_rate[1] # 0 THEN Some(RoundedRatio(cash[1], burn_rate[1]))
    ELSE NULL

\* groupby('month')['cash_balance_eur'].last(): the last value of the month
\* that is not NaN
RECURSIVE LastValue(_, _)
LastValue(rows, c) ==
    IF rows = <<>> THEN NULL
    ELSE IF rows[Len(rows)][c] # NULL THEN rows[Len(rows)][c]
    ELSE LastValue(SubSeq(rows, 1, Len(rows) - 1), c)

MonthlyCash(cash_df) ==
    LET cash == AssignMonth(cash_df, "month")
        keys == SortedKeys(MonthsOf(cash.rows))
    IN  Table(<<"month", "cash_balance_eur">>,
              [i \in DOMAIN keys |->
                  [x \in {"month", "cash_balance_eur"} |->
                      IF x = "month" THEN keys[i]
                      ELSE LastValue(RowsOfMonth(cash.rows, keys[i]), "cash_balance_eur")]])

\* cash_or_df is [const |-> TRUE, value |-> number] or [const |-> FALSE, df |-> table]
calculate_runway(df_burn_rate, cash_or_df) ==
    LET df0 == AssignMonth(df_burn_rate, "month")
        df  == IF cash_or_df.const
               THEN Table(<<"month", "burn_rate", "cash_balance_eur">>,
                          [i \in DOMAIN df0.rows |->
                              SetCol(df0.rows[i], "cash_balance_eur",
                                     Some(cash_or_df.value))])
               ELSE LET m == MergeOuter(df0, MonthlyCash(cash_or_df.df))
                    IN  Table(m.cols,
                              [i \in DOMAIN m.rows |->
                                  SetCol(m.rows[i], "cash_balance_eur",
                                         IF m.rows[i]["cash_balance_eur"] = NULL
                                         THEN Some(0)
                                         ELSE m.rows[i]["cash_balance_eur"])])
    IN  Table(<<"month", "cash_balance_eur", "runway">>,
              [i \in DOMAIN df.rows |->
                  [x \in {"month", "cash_balance_eur", "runway"} |->
                      IF x = "runway"
                      THEN RunwayOf(df.rows[i]["cash_balance_eur"], df.rows[i]["burn_rate"])
                      ELSE df.rows[i][x]]])

----------------------------------------------------------------------------
(* Metrics engine: run_pipeline                                            *)

EmptyTable == Table(<<>>, <<>>)

MetricNames ==
    <<"mrr", "expansion_mrr", "contraction_mrr", "new_mrr", "churned_mrr",
      "net_new_mrr", "arr", "arpa", "customers", "customer_churn_rate",
      "revenue_churn_rate", "ltv", "cac", "cac_ltv_ratio", "opex", "cogs",
      "financial_costs", "ebitda", "net_burn", "burn_rate", "runway">>

NoMetrics == [n \in Range(MetricNames) |-> EmptyTable]

NoFrames ==
    [n \in {"customers_raw", "purchases", "contacts", "mrr_components",
            "cm_metrics", "treasury"} |-> EmptyTable]

AbsentFinal == [exists |-> FALSE, cols |-> <<>>, rows |-> <<>>]

\* pd.read_csv of the treasury clean file
ReadTreasury(file) ==
    Table(file.cols,
          [i \in DOMAIN file.data |->
              [x \in {"month", "cash_balance_eur"} |->
                  IF x = "month" THEN file.data[i].month
                  ELSE Some(file.data[i].cash_balance_eur)]])

TreasuryAlternatives == <<"balance_eur", "ending_balance", "balance", "cash">>

\* the first alternative balance column is renamed when cash_balance_eur is absent
NormalizeTreasury(t) ==
    IF HasCol(t, "cash_balance_eur")
       \/ \A i \in DOMAIN TreasuryAlternatives : ~HasCol(t, TreasuryAlternatives[i])
    THEN t
    ELSE LET k == CHOOSE i \in DOMAIN TreasuryAlternatives :
                      /\ HasCol(t, TreasuryAlternatives[i])
                      /\ \A j \in 1..(i - 1) : ~HasCol(t, TreasuryAlternatives[j])
         IN  RenameCol(t, TreasuryAlternatives[k], "cash_balance_eur")

NoError == <<>>

Fail(error, says) ==
    /\ pipeResult' = error
    /\ pipeError' = says
    /\ pc' = "failed"

\* validate_columns: what the ValueError it raises says, NoError when df has
\* every required column
validate_columns(df, required, df_name) ==
    IF MissingColumns(df, required) # <<>>
    THEN <<df_name, MissingColumns(df, required)>>
    ELSE NoError

\* df[c] for each c of reads in turn: what the KeyError of the first column
\* that df lacks says, NoError when df has them all
KeyErrorOf(df, reads) ==
    IF MissingColumns(df, reads) # <<>> THEN <<MissingColumns(df, reads)[1]>> ELSE NoError

\* the columns a tagged-cost calculator reads, in the order of its statements;
\* date and total_eur are read only when a purchase is kept
TaggedKeyError(df_purchases, df_contacts, tag) ==
    IF KeyErrorOf(df_contacts, <<"tags", "type", "id">>) # NoError
    THEN KeyErrorOf(df_contacts, <<"tags", "type", "id">>)
    ELSE IF KeyErrorOf(df_purchases, <<"contact", "status">>) # NoError
    THEN KeyErrorOf(df_purchases, <<"contact", "status">>)
    ELSE IF \A i \in DOMAIN df_purchases.rows :
                ~KeepPurchase(df_purchases.rows[i],
                              TaggedIds(NormalizeContacts(df_contacts), tag))
    THEN NoError
    ELSE KeyErrorOf(df_purchases, <<"date", "total_eur">>)

\* calculate_cac reads the customers table after the purchases of the CAC suppliers
CacKeyError(df_purchases, df_contacts, df_cm_customers) ==
    IF TaggedKeyError(df_purchases, df_contacts, TagCac) # NoError
    THEN TaggedKeyError(df_purchases, df_contacts, TagCac)
    ELSE KeyErrorOf(df_cm_customers, <<"customer-since", "uuid">>)

\* calculate_net_burn groups the confirmed purchases whether or not there is one
NetBurnKeyError(df_purchases, df_cm_mrr_components) ==
    IF KeyErrorOf(df_purchases, <<"status", "date", "total_eur">>) # NoError
    THEN KeyErrorOf(df_purchases, <<"status", "date", "total_eur">>)
    ELSE KeyErrorOf(df_cm_mrr_components, <<"date", "mrr">>)

\* the reads of lines 2029-2034, the treasury column normalization and the two
\* validate_columns calls
load_inputs ==
    /\ pc = "load"
    /\ IF ~cleanOut.exists
       THEN Fail("FileNotFoundError", <<"holded_treasury_clean.csv">>) /\ UNCHANGED frames
       ELSE LET loaded == [csv EXCEPT !["treasury"] = NormalizeTreasury(ReadTreasury(cleanOut))]
                contacts == validate_columns(loaded["contacts"], <<"id", "tags">>, "Contacts")
                purchases == validate_columns(loaded["purchases"],
                                              <<"date", "contact", "total">>, "Purchases")
            IN  /\ frames' = loaded
                /\ IF contacts # NoError THEN Fail("ValueError", contacts)
                   ELSE IF purchases # NoError THEN Fail("ValueError", purchases)
                   ELSE pc' = "calculate_mrr" /\ UNCHANGED <<pipeResult, pipeError>>
    /\ UNCHANGED <<csv, cash_balance, mt, df_final, finalCsv, cleanOut, cashVars, orchVars, ledgerVars>>

\* one calculator call: the table it returns is bound to its variable
Bind(name, table, next) ==
    /\ mt' = [mt EXCEPT ![name] = table]
    /\ pc' = next
    /\ UNCHANGED <<csv, cash_balance, frames, df_final, finalCsv, pipeResult, pipeError,
                 cleanOut, cashVars, orchVars, ledgerVars>>

\* a calculator that validates the columns of the upstream metrics table first
BindValidated(name, required, table, next) ==
    /\ IF validate_columns(frames["cm_metrics"], required, "ChartMogul Metrics") # NoError
       THEN /\ Fail("ValueError",
                    validate_columns(frames["cm_metrics"], required, "ChartMogul Metrics"))
            /\ UNCHANGED mt
       ELSE /\ mt' = [mt EXCEPT ![name] = table]
            /\ pc' = next
            /\ UNCHANGED <<pipeResult, pipeError>>
    /\ UNCHANGED <<csv, cash_balance, frames, df_final, finalCsv, cleanOut, cashVars, orchVars, ledgerVars>>

\* a calculator that reads columns nothing has validated: the KeyError of the
\* first one absent ends the run
BindReading(name, keyError, table, next) ==
    /\ IF keyError # NoError
       THEN Fail("KeyError", keyError) /\ UNCHANGED mt
       ELSE /\ mt' = [mt EXCEPT ![name] = table]
            /\ pc' = next
            /\ UNCHANGED <<pipeResult, pipeError>>
    /\ UNCHANGED <<csv, cash_balance, frames, df_final, finalCsv, cleanOut, cashVars, orchVars, ledgerVars>>

\* df_contacts['tags'] = ... alone: the assignment of type raised
NormalizeTags(df_contacts) ==
    Table(df_contacts.cols,
          [i \in DOMAIN df_contacts.rows |->
              SetCol(df_contacts.rows[i], "tags", FillStr(df_contacts.rows[i]["tags"]))])

\* a calculator that rewrites tags and type of the contacts table it is given,
\* then reads columns nothing has validated
BindTagged(name, keyError, table, next) ==
    /\ IF keyError # NoError
       THEN /\ Fail("KeyError", keyError)
            /\ frames' = [frames EXCEPT !["contacts"] =
                             IF HasCol(@, "type") THEN NormalizeContacts(@)
                             ELSE NormalizeTags(@)]
            /\ UNCHANGED mt
       ELSE /\ mt' = [mt EXCEPT ![name] = table]
            /\ frames' = [frames EXCEPT !["contacts"] = NormalizeContacts(@)]
            /\ pc' = next
            /\ UNCHANGED <<pipeResult, pipeError>>
    /\ UNCHANGED <<csv, cash_balance, df_final, finalCsv, cleanOut, cashVars, orchVars, ledgerVars>>

step_mrr ==
    /\ pc = "calculate_mrr"
    /\ Bind("mrr",
            calculate_mrr(frames["mrr_components"]), "calculate_expansion_mrr")

step_expansion_mrr ==
    /\ pc = "calculate_expansion_mrr"
    /\ Bind("expansion_mrr",
            calculate_expansion_mrr(frames["mrr_components"]), "calculate_contraction_mrr")

step_contraction_mrr ==
    /\ pc = "calculate_contraction_mrr"
    /\ Bind("contraction_mrr",
            calculate_contraction_mrr(frames["mrr_components"]), "calculate_new_mrr")

step_new_mrr ==
    /\ pc = "calculate_new_mrr"
    /\ Bind("new_mrr",
            calculate_new_mrr(frames["mrr_components"]), "calculate_churned_mrr")

step_churned_mrr ==
    /\ pc = "calculate_churned_mrr"
    /\ Bind("churned_mrr",
            calculate_churned_mrr(frames["mrr_components"]), "calculate_net_new_mrr")

step_net_new_mrr ==
    /\ pc = "calculate_net_new_mrr"
    /\ Bind("net_new_mrr",
            calculate_net_new_mrr(frames["mrr_components"]), "calculate_arr")

step_arr ==
    /\ pc = "calculate_arr"
    /\ Bind("arr",
            calculate_arr(frames["mrr_components"]), "calculate_arpa")

step_arpa ==
    /\ pc = "calculate_arpa"
    /\ BindValidated("arpa", <<"month_start", "arpa">>,
                     calculate_arpa(frames["cm_metrics"]), "calculate_customers")

step_customers ==
    /\ pc = "calculate_customers"
    /\ BindValidated("customers", <<"month_start", "customers">>,
                     calculate_customers(frames["cm_metrics"]), "calculate_customer_churn_rate")

step_customer_churn_rate ==
    /\ pc = "calculate_customer_churn_rate"
    /\ BindValidated("customer_churn_rate",
                     <<"month_start", "customer-churn-rate">>,
                     calculate_customer_churn_rate(frames["cm_metrics"]),
                     "calculate_revenue_churn_rate")

step_revenue_churn_rate ==
    /\ pc = "calculate_revenue_churn_rate"
    /\ BindValidated("revenue_churn_rate",
                     <<"month_start", "mrr-churn-rate">>,
                     calculate_revenue_churn_rate(frames["cm_metrics"]), "calculate_ltv")

step_ltv ==
    /\ pc = "calculate_ltv"
    /\ BindValidated("ltv", <<"month_start", "ltv">>,
                     calculate_ltv(frames["cm_metrics"]), "calculate_cac")

step_cac ==
    /\ pc = "calculate_cac"
    /\ BindTagged("cac",
                  CacKeyError(frames["purchases"], frames["contacts"], frames["customers_raw"]),
                  calculate_cac(frames["purchases"], frames["contacts"], frames["customers_raw"]),
                  "calculate_cac_ltv_ratio")

step_cac_ltv_ratio ==
    /\ pc = "calculate_cac_ltv_ratio"
    /\ Bind("cac_ltv_ratio",
            calculate_cac_ltv_ratio(mt["ltv"], mt["cac"]), "calculate_opex")

step_opex ==
    /\ pc = "calculate_opex"
    /\ BindTagged("opex",
                  TaggedKeyError(frames["purchases"], frames["contacts"], TagOpex),
                  calculate_opex(frames["purchases"], frames["contacts"]), "calculate_cogs")

step_cogs ==
    /\ pc = "calculate_cogs"
    /\ BindTagged("cogs",
                  TaggedKeyError(frames["purchases"], frames["contacts"], TagCogs),
                  calculate_cogs(frames["purchases"], frames["contacts"]),
                  "calculate_financial_costs")

step_financial_costs ==
    /\ pc = "calculate_financial_costs"
    /\ BindTagged("financial_costs",
                  TaggedKeyError(frames["purchases"], frames["contacts"], TagFinancial),
                  calculate_financial_costs(frames["purchases"], frames["contacts"]),
                  "calculate_ebitda")

step_ebitda ==
    /\ pc = "calculate_ebitda"
    /\ Bind("ebitda",
            calculate_ebitda(mt["mrr"], mt["opex"], mt["cogs"], mt["financial_costs"],
                             mt["cac"]),
            "calculate_net_burn")

step_net_burn ==
    /\ pc = "calculate_net_burn"
    /\ BindReading("net_burn",
            NetBurnKeyError(frames["purchases"], frames["mrr_components"]),
            calculate_net_burn(frames["purchases"], frames["mrr_components"]),
            "calculate_burn_rate")

step_burn_rate ==
    /\ pc = "calculate_burn_rate"
    /\ Bind("burn_rate",
            calculate_burn_rate(mt["ebitda"]), "calculate_runway")

\* df_treasury if not df_treasury.empty else cash_balance
CashSource ==
    IF frames["treasury"].rows # <<>>
    THEN [const |-> FALSE, value |-> 0, df |-> frames["treasury"]]
    ELSE [const |-> TRUE, value |-> cash_balance, df |-> EmptyTable]

step_runway ==
    /\ pc = "calculate_runway"
    /\ Bind("runway",
            calculate_runway(mt["burn_rate"], CashSource), "merge")

RECURSIVE MergeAll(_)
\* df_final = dfs[0]; for df in dfs[1:]: df_final = pd.merge(df_final, df, ...)
MergeAll(dfs) ==
    IF Len(dfs) = 1 THEN dfs[1]
    ELSE MergeOuter(MergeAll(SubSeq(dfs, 1, Len(dfs) - 1)), dfs[Len(dfs)])

\* pd.to_datetime(month, format="%Y-%m"): 'NaT' parses to NaT
ParseMonth(k) == IF k = NaTStr THEN <<>> ELSE <<k[1], k[2], 1>>

\* .dt.strftime("%Y-%m"): NaT gives NaN
FormatMonth(dt) == IF dt = <<>> THEN NULL ELSE <<dt[1], dt[2]>>

\* position of a datetime in sort_values: NaT last
DtOrd(dt) == IF dt = <<>> THEN 1000000 ELSE dt[1] * 12 + (dt[2] - 1)

RECURSIVE RowsByDt(_, _)
\* the rows of the earliest datetime of dts, then those of the next one, each
\* group in the order it has in rows
RowsByDt(dts, rows) ==
    IF dts = {} THEN <<>>
    ELSE LET first == CHOOSE d \in dts : \A e \in dts : DtOrd(d) <= DtOrd(e)
         IN  SelectSeq(rows, LAMBDA r : r["month"] = first) \o RowsByDt(dts \ {first}, rows)

\* sort_values(by='month') on the parsed months. pandas fixes no order among
\* the rows of one month; they are kept here in the order of the merge, and
\* no property depends on their order
SortByDt(rows) == RowsByDt(MonthsOf(rows), rows)

\* month parsed, rows sorted, month formatted again
SortMonthsFinal(t) ==
    LET parsed == [i \in DOMAIN t.rows |->
                      SetCol(t.rows[i], "month", ParseMonth(t.rows[i]["month"]))]
        sorted == SortByDt(parsed)
    IN  Table(t.cols,
              [i \in DOMAIN sorted |->
                  SetCol(sorted[i], "month", FormatMonth(sorted[i]["month"]))])

preferred_order ==
    <<"month", "mrr", "expansion_mrr", "contraction_mrr", "new_mrr", "churned_mrr",
      "net_new_mrr", "arr",
      "arpa",
      "customers", "customer_churn_rate", "revenue_churn_rate", "ltv",
      "cac_costs", "new_customers", "cac", "cac_ltv_ratio",
      "opex", "cogs", "financial_costs",
      "ebitda", "burn_rate", "net_burn", "cash_balance_eur", "runway">>

\* [col for col in preferred_order if col in df_final.columns]; df_final[...]
ReorderColumns(t) ==
    SelectCols(t, SelectSeq(preferred_order, LAMBDA c : HasCol(t, c)))

\* the merged table left with its NaN
MergedFinal_unfilled(tables) ==
    ReorderColumns(SortMonthsFinal(
        MergeAll([i \in DOMAIN MetricNames |-> tables[MetricNames[i]]])))

\* the merge of the 21 tables in script order, fillna(0), the sort on month and
\* the column reordering (the metric tables share no column but month, so
\* dropping duplicated column names removes nothing)
MergedFinal(tables) ==
    ReorderColumns(SortMonthsFinal(FillNa0(
        MergeAll([i \in DOMAIN MetricNames |-> tables[MetricNames[i]]]))))

merge_metrics ==
    /\ pc = "merge"
    /\ df_final' = MergedFinal(mt)
    /\ pc' = "save"
    /\ UNCHANGED <<csv, cash_balance, frames, mt, finalCsv, pipeResult, pipeError,
                 cleanOut, cashVars, orchVars, ledgerVars>>

\* df_final.to_csv(latest_csv, index=False) and its dated and parquet copies
save_outputs ==
    /\ pc = "save"
    /\ finalCsv' = [exists |-> TRUE, cols |-> df_final.cols, rows |-> df_final.rows]
    /\ pipeResult' = "ok"
    /\ pc' = "done"
    /\ UNCHANGED <<csv, cash_balance, frames, mt, df_final, pipeError, cleanOut, cashVars, orchVars, ledgerVars>>

NextEngine ==
    \/ load_inputs
    \/ step_mrr
    \/ step_expansion_mrr
    \/ step_contraction_mrr
    \/ step_new_mrr
    \/ step_churned_mrr
    \/ step_net_new_mrr
    \/ step_arr
    \/ step_arpa
    \/ step_customers
    \/ step_customer_churn_rate
    \/ step_revenue_churn_rate
    \/ step_ltv
    \/ step_cac
    \/ step_cac_ltv_ratio
    \/ step_opex
    \/ step_cogs
    \/ step_financial_costs
    \/ step_ebitda
    \/ step_net_burn
    \/ step_burn_rate
    \/ step_runway
    \/ merge_metrics
    \/ save_outputs

----------------------------------------------------------------------------
(* Ledger extractor: collect_entries_no_truncation                         *)
(* A date is its day number, so that end_date - start_date is a number of  *)
(* days; the entries a fetch returns are their count.                      *)

\* the last day a window may hold
MaxDay == 6

\* limit: 250 in extract_holded_treasury; the code only compares it with the
\* number of entries fetched
limit == 2

max_depth == 12

\* len(entries) of fetch_dailyledger_for_window: whatever the API answers, a
\* list longer than limit included
EntryCounts == 0..(limit + 1)

\* len(entries) >= limit and span_days > 0 and depth < max_depth
MustSplit(entries, span_days, depth) ==
    entries >= limit /\ span_days > 0 /\ depth < max_depth

\* one call of collect_entries_no_truncation, from its fetch to its two
\* recursive calls or to its return of the entries fetched; the outermost call
\* returns when no call is left
collect_entries_no_truncation ==
    /\ ledgerResult = "running"
    /\ calls # <<>>
    /\ LET start_date == calls[1][1]
           end_date == calls[1][2]
           depth == calls[1][3]
           span_days == end_date - start_date
           mid == start_date + (span_days \div 2)
       IN  \E entries \in EntryCounts :
               IF MustSplit(entries, span_days, depth)
               THEN /\ calls' = <<<<start_date, mid, depth + 1>>,
                                  <<mid + 1, end_date, depth + 1>>>> \o Tail(calls)
                    /\ UNCHANGED leaves
               ELSE /\ calls' = Tail(calls)
                    /\ leaves' = Append(leaves, [start_date |-> start_date,
                                                 end_date |-> end_date,
                                                 entries |-> entries])
    /\ ledgerResult' = IF calls' = <<>> THEN "returned" ELSE "running"
    /\ UNCHANGED <<engineVars, cleanOut, cashVars, orchVars>>

\* fetch_dailyledger_for_window raises (status >= 400, HTML, no JSON, or the
\* 45 s timeout of requests.get): the exception leaves every pending call
fetch_raises ==
    /\ ledgerResult = "running"
    /\ calls # <<>>
    /\ calls' = <<>>
    /\ ledgerResult' = "RuntimeError"
    /\ UNCHANGED leaves
    /\ UNCHANGED <<engineVars, cleanOut, cashVars, orchVars>>

NextLedger ==
    \/ collect_entries_no_truncation
    \/ fetch_raises

\* the ledger extractor is not part of the run
LedgerIdle ==
    /\ calls = <<>>
    /\ leaves = <<>>
    /\ ledgerResult = "idle"

----------------------------------------------------------------------------
(* Orchestrators: run_api_scripts.py and run_all.py                        *)

\* the ordered script list of run_api_scripts.py
scripts ==
    <<"data_pipeline/CM/Extract/extract_CM_customers.py",
      "data_pipeline/CM/Transform/transform_CM_customers.py",
      "data_pipeline/CM/Extract/extract_CM_metrics.py",
      "data_pipeline/CM/Transform/transform_CM_metrics.py",
      "data_pipeline/CM/Extract/extract_CM_plans.py",
      "data_pipeline/CM/Transform/transform_CM_plans.py",
      "data_pipeline/CM/Extract/extract_CM_mrr_components.py",
      "data_pipeline/CM/Transform/transform_CM_mrr_components.py",
      "data_pipeline/HD/Extract/extract_HD_invoices.py",
      "data_pipeline/HD/Transform/transform_HD_invoices.py",
      "data_pipeline/HD/Extract/extract_HD_payments.py",
      "data_pipeline/HD/Transform/transform_HD_payments.py",
      "data_pipeline/HD/Extract/extract_HD_contacts.py",
      "data_pipeline/HD/Transform/transform_HD_contacts.py",
      "data_pipeline/HD/Extract/extract_HD_expenses.py",
      "data_pipeline/HD/Transform/transform_HD_expenses.py",
      "data_pipeline/HD/Extract/extract_HD_purchases.py",
      "data_pipeline/HD/Transform/transform_HD_purchases.py">>

required_files ==
    {"data/INPUT/holded_invoices/clean/holded_invoices_clean.csv",
     "data/INPUT/holded_payments/clean/holded_payments_clean.csv",
     "data/INPUT/holded_contacts/clean/holded_contacts_clean.csv",
     "data/INPUT/holded_expenses/clean/holded_expenses_clean.csv",
     "data/INPUT/holded_purchases/clean/holded_purchases_clean.csv"}

API_SCRIPT == "run_api_scripts.py"

METRICS_SCRIPT == "metrics_pipeline.py"

\* the script files that may be absent from the working directory in one run
MaxNotFound == 2

NotFoundSoFar == Cardinality({i \in DOMAIN results : results[i][2] = "NOT FOUND"})

\* a loop that stops on no status
CriticalFailure_never(rs) == FALSE

\* results[-1][1] == "FAILED"
CriticalFailure(rs) == rs[Len(rs)][2] = "FAILED"

\* run_api_scripts.run_script up to subprocess.run: a script that does not exist
\* is recorded as NOT FOUND and the loop goes on; one that exists is started
api_start_script ==
    /\ apiPc = "loop"
    /\ apiNext <= Len(scripts)
    /\ \/ /\ NotFoundSoFar < MaxNotFound
          /\ results' = Append(results, <<scripts[apiNext], "NOT FOUND">>)
          /\ apiNext' = apiNext + 1
          /\ UNCHANGED <<apiPc, started, running>>
       \/ /\ apiPc' = "script_running"
          /\ started' = Append(started, scripts[apiNext])
          /\ running' = Append(running, scripts[apiNext])
          /\ UNCHANGED <<results, apiNext>>
    /\ UNCHANGED <<allPc, status_summary, allExit, apiExit>>
    /\ UNCHANGED <<engineVars, cleanOut, cashVars, ledgerVars>>

\* the rest of run_api_scripts.run_script and the test of the loop: the status
\* follows the return code; FAILED ends the process with exit code 1
api_end_script ==
    /\ apiPc = "script_running"
    /\ \E status \in {"SUCCESS", "FAILED"} :
          LET rs == Append(results, <<scripts[apiNext], status>>)
          IN  /\ results' = rs
              /\ running' = SubSeq(running, 1, Len(running) - 1)
              /\ IF CriticalFailure(rs)
                 THEN apiPc' = "exited" /\ apiExit' = "1" /\ UNCHANGED apiNext
                 ELSE apiPc' = "loop" /\ apiNext' = apiNext + 1 /\ UNCHANGED apiExit
    /\ UNCHANGED <<allPc, status_summary, allExit, started>>
    /\ UNCHANGED <<engineVars, cleanOut, cashVars, ledgerVars>>

\* after the loop: exit code 1 when a required file is missing, else the
\* summary is printed and written and the process ends with exit code 0
api_verify ==
    /\ apiPc = "loop"
    /\ apiNext = Len(scripts) + 1
    /\ \E missing_files \in {{}, required_files,
                             {"data/INPUT/holded_purchases/clean/holded_purchases_clean.csv"}} :
          apiExit' = IF missing_files # {} THEN "1" ELSE "0"
    /\ apiPc' = "exited"
    /\ UNCHANGED <<allPc, status_summary, allExit, apiNext, results, started, running>>
    /\ UNCHANGED <<engineVars, cleanOut, cashVars, ledgerVars>>

\* run_all.run_script(API_SCRIPT) up to the child's start: subprocess.run
\* raises (ERROR), the interpreter cannot open the script (a non-zero return
\* code, FAILED), or run_api_scripts.py starts
all_start_api ==
    /\ allPc = "api"
    /\ \/ /\ \E status \in {"ERROR", "FAILED"} :
                status_summary' = Append(status_summary, <<API_SCRIPT, status>>)
          /\ allPc' = "metrics"
          /\ UNCHANGED <<apiPc, apiNext, started, running>>
       \/ /\ allPc' = "api_running"
          /\ apiPc' = "loop"
          /\ apiNext' = 1
          /\ started' = Append(started, API_SCRIPT)
          /\ running' = Append(running, API_SCRIPT)
          /\ UNCHANGED status_summary
    /\ UNCHANGED <<allExit, results, apiExit>>
    /\ UNCHANGED <<engineVars, cleanOut, cashVars, ledgerVars>>

\* the status run_all.run_script records for a return code
StatusOfExit(code) == IF code = "0" THEN "SUCCESS" ELSE "FAILED"

\* run_api_scripts.py has ended: run_all.run_script records its status
all_end_api ==
    /\ allPc = "api_running"
    /\ apiPc = "exited"
    /\ status_summary' = Append(status_summary, <<API_SCRIPT, StatusOfExit(apiExit)>>)
    /\ running' = SubSeq(running, 1, Len(running) - 1)
    /\ allPc' = "metrics"
    /\ UNCHANGED <<allExit, apiPc, apiNext, results, apiExit, started>>
    /\ UNCHANGED <<engineVars, cleanOut, cashVars, ledgerVars>>

\* run_all.run_script(METRICS_SCRIPT), whatever the first step recorded
all_run_metrics ==
    /\ allPc = "metrics"
    /\ started' = Append(started, METRICS_SCRIPT)
    /\ \E status \in {"SUCCESS", "FAILED", "ERROR"} :
          status_summary' = Append(status_summary, <<METRICS_SCRIPT, status>>)
    /\ allPc' = "summary"
    /\ UNCHANGED <<allExit, apiPc, apiNext, results, apiExit, running>>
    /\ UNCHANGED <<engineVars, cleanOut, cashVars, ledgerVars>>

\* save_summary, "Pipeline run completed.", and the end of the process
all_save_summary ==
    /\ allPc = "summary"
    /\ allPc' = "done"
    /\ allExit' = "0"
    /\ UNCHANGED <<status_summary, apiPc, apiNext, results, apiExit, started, running>>
    /\ UNCHANGED <<engineVars, cleanOut, cashVars, ledgerVars>>

\* run_api_scripts.py run on its own
NextApi ==
    \/ api_start_script
    \/ api_end_script
    \/ api_verify

\* run_all.py and the run_api_scripts.py it starts
NextAll ==
    \/ all_start_api
    \/ api_start_script
    \/ api_end_script
    \/ api_verify
    \/ all_end_api
    \/ all_run_metrics
    \/ all_save_summary

\* no orchestrator is part of the run
OrchIdle ==
    /\ allPc = "idle"
    /\ status_summary = <<>>
    /\ allExit = "running"
    /\ apiPc = "idle"
    /\ apiNext = 1
    /\ results = <<>>
    /\ apiExit = "none"
    /\ started = <<>>
    /\ running = <<>>

----------------------------------------------------------------------------
(* Inputs of the metrics engine                                            *)

Str_OPEX_Vendor == <<"O", "P", "E", "X", ",", " ", "V", "e", "n", "d", "o", "r">>
Str_opex == <<"o", "p", "e", "x">>
Str_cogs_CAC == <<"c", "o", "g", "s", ";", "C", "A", "C">>
Str_Costes == <<"C", "o", "s", "t", "e", "s", " ",
                "F", "i", "n", "a", "n", "c", "i", "e", "r", "o", "s">>
Str_ope == <<"o", "p", "e">>
Str_supplier == <<"s", "u", "p", "p", "l", "i", "e", "r">>
Str_Supplier == <<"S", "u", "p", "p", "l", "i", "e", "r">>
Str_client == <<"c", "l", "i", "e", "n", "t">>

MrrCols == <<"date", "mrr", "mrr-new-business", "mrr-expansion", "mrr-contraction",
             "mrr-churn">>

MrrRow(date, mrr, new, expansion, contraction, churn) ==
    [x \in Range(MrrCols) |->
        CASE x = "date" -> date
          [] x = "mrr" -> mrr
          [] x = "mrr-new-business" -> new
          [] x = "mrr-expansion" -> expansion
          [] x = "mrr-contraction" -> contraction
          [] x = "mrr-churn" -> churn]

M_march_5 ==
    MrrRow(<<2024, 3, 5>>, Some(1000000), Some(100000), Some(0), Some(0), Some(-20000))
M_march_20 ==
    MrrRow(<<2024, 3, 20>>, Some(500000), Some(50000), Some(30000), Some(-10000), Some(0))
M_april_1 ==
    MrrRow(<<2024, 4, 1>>, Some(800000), Some(-40000), Some(-5000), Some(10000), NULL)
M_april_10 ==
    MrrRow(<<2024, 4, 10>>, Some(100000), Some(0), Some(20000), Some(-30000), Some(40000))
M_undated ==
    MrrRow(BadDate, Some(10000), Some(1000), Some(1000), Some(-1000), Some(-1000))

\* the rows the MRR components file is drawn from
MrrRowPool == {M_march_5, M_march_20, M_april_1, M_april_10, M_undated}

DefaultMrrRows == <<M_march_5, M_march_20>>

PurchaseCols == <<"date", "contact", "total", "total_eur", "status">>

Purchase(date, contact, total, total_eur, status) ==
    [x \in Range(PurchaseCols) |->
        CASE x = "date" -> date
          [] x = "contact" -> contact
          [] x = "total" -> total
          [] x = "total_eur" -> total_eur
          [] x = "status" -> status]

P_c1_march == Purchase(<<2024, 3, 2>>, "c1", Some(110000), Some(100000), Some(1))
P_c2_march == Purchase(<<2024, 3, 15>>, "c2", Some(60000), Some(50000), Some(1))
P_c1_late_march == Purchase(<<2024, 3, 28>>, "c1", Some(25000), Some(25000), Some(1))
P_c1_draft == Purchase(<<2024, 4, 1>>, "c1", Some(70000), Some(70000), Some(0))
P_c3_june == Purchase(<<2024, 6, 9>>, "c3", Some(20000), Some(20000), Some(1))
P_c1_undated == Purchase(BadDate, "c1", Some(5000), Some(5000), Some(1))

\* the contents of the purchases file that are explored
PurchaseLists ==
    { <<>>,
      <<P_c1_march>>,
      <<P_c1_draft>>,
      <<P_c1_march, P_c2_march>>,
      <<P_c3_june, P_c1_march, P_c1_late_march>>,
      <<P_c1_draft, P_c2_march, P_c1_undated>> }

DefaultPurchases == <<P_c1_march, P_c3_june>>

ContactCols == <<"id", "tags", "type">>

Contact(id, tags, type) ==
    [x \in Range(ContactCols) |->
        CASE x = "id" -> id
          [] x = "tags" -> tags
          [] x = "type" -> type]

ContactPool ==
    { Contact("c1", Some(Str_OPEX_Vendor), Some(Str_supplier)),
      Contact("c1", Some(Str_opex), Some(Str_Supplier)),
      Contact("c2", Some(Str_cogs_CAC), Some(Str_supplier)),
      Contact("c2", Some(Str_Costes), Some(Str_client)),
      Contact("c3", NULL, Some(Str_supplier)),
      Contact("c1", Some(Str_ope), NULL) }

DefaultContacts ==
    << Contact("c1", Some(Str_OPEX_Vendor), Some(Str_supplier)),
       Contact("c2", Some(Str_cogs_CAC), Some(Str_supplier)),
       Contact("c3", NULL, Some(Str_supplier)) >>

CmMetricsCols == <<"month_start", "arpa", "customers", "customer-churn-rate",
                   "mrr-churn-rate", "ltv">>

CmMetricsRow(month_start, arpa, customers, customer_churn, mrr_churn, ltv) ==
    [x \in Range(CmMetricsCols) |->
        CASE x = "month_start" -> month_start
          [] x = "arpa" -> arpa
          [] x = "customers" -> customers
          [] x = "customer-churn-rate" -> customer_churn
          [] x = "mrr-churn-rate" -> mrr_churn
          [] x = "ltv" -> ltv]

DefaultCmMetrics ==
    << CmMetricsRow(<<2024, 3, 1>>, Some(150000), Some(10), Some(2), Some(3), Some(7500000)),
       CmMetricsRow(<<2024, 5, 1>>, Some(160000), Some(11), Some(0), Some(1), Some(0)) >>

CustomerCols == <<"uuid", "customer-since", "status">>

Customer(uuid, since, status) ==
    [x \in Range(CustomerCols) |->
        CASE x = "uuid" -> uuid
          [] x = "customer-since" -> since
          [] x = "status" -> status]

DefaultCustomers ==
    << Customer("u1", <<2024, 3, 10>>, "Active"),
       Customer("u2", <<2024, 3, 11>>, "Cancelled"),
       Customer("u3", NULL, "Active") >>

DefaultTreasury ==
    [exists |-> TRUE, cols |-> CleanCols,
     data |-> <<[month |-> <<2024, 3>>, cash_balance_eur |-> 5000000],
                [month |-> <<2024, 4>>, cash_balance_eur |-> 4000000]>>]

\* --cash, default 10000 (euros)
DefaultCash == 10000 * 1000

SourceTables(mrr_rows, purchases, contacts, cm_metrics, customers) ==
    [n \in {"customers_raw", "purchases", "contacts", "mrr_components", "cm_metrics",
            "treasury"} |->
        CASE n = "customers_raw" -> Table(CustomerCols, customers)
          [] n = "purchases" -> Table(PurchaseCols, purchases)
          [] n = "contacts" -> Table(ContactCols, contacts)
          [] n = "mrr_components" -> Table(MrrCols, mrr_rows)
          [] n = "cm_metrics" -> Table(CmMetricsCols, cm_metrics)
          [] n = "treasury" -> EmptyTable]

DefaultSources ==
    SourceTables(DefaultMrrRows, DefaultPurchases, DefaultContacts, DefaultCmMetrics,
                 DefaultCustomers)

\* the engine before run_pipeline has executed a statement
EngineStart ==
    /\ cash_balance = DefaultCash
    /\ frames = NoFrames
    /\ mt = NoMetrics
    /\ df_final = EmptyTable
    /\ finalCsv = AbsentFinal
    /\ pc = "load"
    /\ pipeResult = "running"
    /\ pipeError = NoError

\* the cash reconstruction is not part of the run
CashIdle ==
    /\ rawLedger = AbsentFile
    /\ rawSnapshot = AbsentFile
    /\ cashOpened = {}
    /\ cashResult = "pending"

MaxMrrRows == 3

InitMrr ==
    /\ csv \in {SourceTables(rows, DefaultPurchases, DefaultContacts, DefaultCmMetrics,
                             DefaultCustomers) : rows \in SeqsUpTo(MrrRowPool, MaxMrrRows)}
    /\ cleanOut = DefaultTreasury
    /\ EngineStart
    /\ CashIdle
    /\ OrchIdle
    /\ LedgerIdle

SpecMrr == InitMrr /\ [][NextEngine]_vars

MaxContacts == 2

InitCosts ==
    /\ csv \in {SourceTables(DefaultMrrRows, ps, cs, DefaultCmMetrics, DefaultCustomers) :
                   ps \in PurchaseLists,
                   cs \in SeqsUpTo(ContactPool, MaxContacts)}
    /\ cleanOut = DefaultTreasury
    /\ EngineStart
    /\ CashIdle
    /\ OrchIdle
    /\ LedgerIdle

SpecCosts == InitCosts /\ [][NextEngine]_vars


----------------------------------------------------------------------------
(* Inputs of the whole run: every source table varies                      *)

Str_cac == <<"c", "a", "c">>
Str_cogs == <<"c", "o", "g", "s">>

\* March: opex 300, cogs 200, financial costs 50, acquisition spend 50
P_c1_opex_300 == Purchase(<<2024, 3, 4>>, "c1", Some(363000), Some(300000), Some(1))
P_c2_cogs_200 == Purchase(<<2024, 3, 9>>, "c2", Some(200000), Some(200000), Some(1))
P_c3_financial_50 == Purchase(<<2024, 3, 30>>, "c3", Some(50000), Some(50000), Some(1))
P_c4_cac_50 == Purchase(<<2024, 3, 12>>, "c4", Some(50000), Some(50000), Some(1))
\* a credit note of the acquisition supplier in June, and its spend in July
P_c4_refund_june == Purchase(<<2024, 6, 20>>, "c4", Some(-30000), Some(-30000), Some(1))
P_c4_cac_july == Purchase(<<2024, 7, 1>>, "c4", Some(80000), Some(80000), Some(1))

RunPurchases ==
    { <<>>,
      <<P_c1_opex_300, P_c2_cogs_200, P_c3_financial_50, P_c4_cac_50, P_c4_cac_july>>,
      <<P_c4_cac_july, P_c4_refund_june, P_c1_draft, P_c2_cogs_200>>,
      <<P_c1_undated, P_c4_cac_50, P_c1_opex_300>> }

RunContacts ==
    { <<>>,
      << Contact("c1", Some(Str_OPEX_Vendor), Some(Str_supplier)),
         Contact("c2", Some(Str_cogs), Some(Str_Supplier)),
         Contact("c3", Some(Str_Costes), Some(Str_supplier)),
         Contact("c4", Some(Str_cac), Some(Str_supplier)) >>,
      << Contact("c4", Some(Str_cogs_CAC), Some(Str_supplier)),
         Contact("c1", NULL, Some(Str_supplier)),
         Contact("c2", Some(Str_cogs), Some(Str_client)) >> }

RunCustomers ==
    { DefaultCustomers,
      << Customer("u1", <<2024, 6, 2>>, "Active"),
         Customer("u1", <<2024, 6, 2>>, "Active"),
         Customer("u4", <<2024, 6, 30>>, "Active"),
         Customer("u5", <<2024, 3, 1>>, "Cancelled"),
         Customer("u6", NULL, "Active") >>,
      << Customer("u6", NULL, "Active") >> }

RunMrrRows ==
    { <<>>,
      <<M_march_5>>,
      <<M_april_10, M_march_5, M_april_1>>,
      <<M_undated, M_march_20>> }

RunCmMetrics ==
    { <<>>,
      DefaultCmMetrics,
      << CmMetricsRow(<<2024, 6, 1>>, Some(90000), Some(12), Some(5), Some(4), Some(9000000)),
         CmMetricsRow(<<2024, 3, 1>>, Some(150000), Some(10), Some(2), Some(3), Some(7500000)) >>,
      \* the month of March reported twice
      << CmMetricsRow(<<2024, 3, 1>>, Some(150000), Some(10), Some(2), Some(3), Some(7500000)),
         CmMetricsRow(<<2024, 3, 31>>, Some(155000), Some(11), Some(2), Some(3), Some(7750000)) >> }

\* the treasury file: a series, a series in another order with a month of
\* its own, and a file with its header only
RunTreasury ==
    { DefaultTreasury,
      [exists |-> TRUE, cols |-> CleanCols,
       data |-> <<[month |-> <<2024, 6>>, cash_balance_eur |-> 1200000],
                  [month |-> <<2024, 1>>, cash_balance_eur |-> 700000],
                  [month |-> <<2024, 3>>, cash_balance_eur |-> 0]>>],
      [exists |-> TRUE, cols |-> CleanCols, data |-> <<>>] }

\* a clean file written without the columns cs
WithoutCols(t, cs) ==
    Table(SelectSeq(t.cols, LAMBDA c : c \notin cs),
          [i \in DOMAIN t.rows |-> Project(t.rows[i], DOMAIN t.rows[i] \ cs)])

\* the columns the calculators read or validate, by source table
ColumnsUsed ==
    [n \in {"customers_raw", "purchases", "contacts", "cm_metrics"} |->
        CASE n = "customers_raw" -> {"uuid", "customer-since"}
          [] n = "purchases" -> {"date", "contact", "total", "total_eur", "status"}
          [] n = "contacts" -> {"id", "tags", "type"}
          [] n = "cm_metrics" -> Range(CmMetricsCols)]

\* source tables that lack columns: each used column alone, and some together
RunMissing ==
    UNION {{{<<n, c>>} : c \in ColumnsUsed[n]} : n \in DOMAIN ColumnsUsed}
    \cup {{<<"purchases", "date">>, <<"purchases", "total">>},
          {<<"contacts", "tags">>, <<"purchases", "date">>},
          {<<"purchases", "status">>, <<"contacts", "type">>},
          {<<"cm_metrics", "ltv">>, <<"customers_raw", "uuid">>},
          {<<"cm_metrics", "ltv">>, <<"cm_metrics", "customers">>}}

\* the sources the columns are removed from: every bucket has a purchase in the
\* first, no supplier is tagged in the second
RunComplete ==
    {SourceTables(<<M_april_10, M_march_5, M_april_1>>,
                  <<P_c1_opex_300, P_c2_cogs_200, P_c3_financial_50, P_c4_cac_50,
                    P_c4_cac_july>>,
                  cs, DefaultCmMetrics, DefaultCustomers) :
        cs \in {<<>>,
                << Contact("c1", Some(Str_OPEX_Vendor), Some(Str_supplier)),
                   Contact("c2", Some(Str_cogs), Some(Str_Supplier)),
                   Contact("c3", Some(Str_Costes), Some(Str_supplier)),
                   Contact("c4", Some(Str_cac), Some(Str_supplier)) >>}}

SourcesWithout(sources, missing) ==
    [n \in DOMAIN sources |->
        WithoutCols(sources[n], {c \in Range(sources[n].cols) : <<n, c>> \in missing})]

InitRun ==
    /\ csv \in {SourceTables(rows, ps, cs, cm, cu) :
                   rows \in RunMrrRows, ps \in RunPurchases, cs \in RunContacts,
                   cm \in RunCmMetrics, cu \in RunCustomers}
                \cup {SourcesWithout(sources, missing) :
                         sources \in RunComplete, missing \in RunMissing}
    /\ cleanOut \in RunTreasury
    /\ EngineStart
    /\ CashIdle
    /\ OrchIdle
    /\ LedgerIdle

SpecRun == InitRun /\ [][NextEngine]_vars

\* the treasury clean file of a run: absent, with its header only, a series
\* with one row per month, and a series with several rows in one month
CashSourceFiles ==
    RunTreasury
    \cup { AbsentClean,
           [exists |-> TRUE, cols |-> CleanCols,
            data |-> <<[month |-> <<2024, 3>>, cash_balance_eur |-> 5000000],
                       [month |-> <<2024, 7>>, cash_balance_eur |-> 900000],
                       [month |-> <<2024, 3>>, cash_balance_eur |-> 4200000],
                       [month |-> <<2024, 7>>, cash_balance_eur |-> 0]>>] }

\* complete source tables, the treasury clean file varies
InitCashSource ==
    /\ csv \in RunComplete
                \cup {SourceTables(<<>>, <<>>, <<>>, <<>>, <<>>),
                      SourceTables(<<M_undated, M_march_20>>,
                                   <<P_c4_cac_july, P_c4_refund_june, P_c1_draft,
                                     P_c2_cogs_200>>,
                                   <<Contact("c4", Some(Str_cac), Some(Str_supplier))>>,
                                   DefaultCmMetrics, DefaultCustomers)}
    /\ cleanOut \in CashSourceFiles
    /\ EngineStart
    /\ CashIdle
    /\ OrchIdle
    /\ LedgerIdle

SpecCashSource == InitCashSource /\ [][NextEngine]_vars

----------------------------------------------------------------------------
(* Inputs of the cash reconstruction                                       *)

MaxWindows == 3

LedgerMonths == {<<2023, 11>>, <<2023, 12>>, <<2024, 1>>}

Acct572 == <<"5", "7", "2", "0", "1">>
Acct570 == <<"5", "7", "0">>
Acct400 == <<"4", "0", "0", "0", "1">>
Acct657 == <<"6", "5", "7">>

EntryLists ==
    { <<>>,
      <<[account |-> Acct572, debit |-> Some(20), credit |-> NULL]>>,
      <<[account |-> Acct400, debit |-> Some(30), credit |-> NULL],
        [account |-> Acct657, debit |-> Some(0), credit |-> Some(10)]>>,
      <<[account |-> Acct570, debit |-> NULL, credit |-> Some(15)],
        [account |-> Acct572, debit |-> Some(1000), credit |-> Some(0)]>> }

WindowPool == {[month |-> m, entries |-> es] : m \in LedgerMonths, es \in EntryLists}

Snapshots ==
    { <<>>,
      <<[balance |-> Some(1005)]>>,
      <<[currentBalance |-> Some(1500), available |-> Some(7)],
        [currentBalance |-> NULL, available |-> Some(7)],
        [currentBalance |-> Some(500), available |-> Some(7)]>> }

StaleClean ==
    [exists |-> TRUE, cols |-> CleanCols,
     data |-> <<[month |-> <<2023, 10>>, cash_balance_eur |-> 990]>>]

InitCash ==
    /\ rawLedger \in {AbsentFile}
           \cup {[exists |-> TRUE, data |-> ws] : ws \in SeqsUpTo(WindowPool, MaxWindows)}
    /\ rawSnapshot \in {AbsentFile}
           \cup {[exists |-> TRUE, data |-> s] : s \in Snapshots}
    /\ cleanOut \in {AbsentClean, StaleClean}
    /\ cashOpened = {}
    /\ cashResult = "pending"
    /\ csv = DefaultSources
    /\ EngineStart
    /\ OrchIdle
    /\ LedgerIdle

build_monthly_from_ledger ==
    /\ cashResult = "pending"
    /\ LET run == build_monthly_from_ledger_run(rawLedger, rawSnapshot, cleanOut)
       IN  /\ cashResult' = run.result
           /\ cleanOut' = run.out
           /\ cashOpened' = run.opened
    /\ UNCHANGED <<rawLedger, rawSnapshot>>
    /\ UNCHANGED <<engineVars, orchVars, ledgerVars>>

NextCash == build_monthly_from_ledger

SpecCash == InitCash /\ [][NextCash]_vars

----------------------------------------------------------------------------
(* Runs of the orchestrators                                               *)

\* the engine and the cash reconstruction as they are before a step of theirs
PipelineAtRest ==
    /\ csv = DefaultSources
    /\ cleanOut \in {AbsentClean, StaleClean}
    /\ EngineStart
    /\ CashIdle
    /\ LedgerIdle

\* python run_all.py
InitAll ==
    /\ PipelineAtRest
    /\ allPc = "api"
    /\ status_summary = <<>>
    /\ allExit = "running"
    /\ apiPc = "idle"
    /\ apiNext = 1
    /\ results = <<>>
    /\ apiExit = "none"
    /\ started = <<>>
    /\ running = <<>>

SpecAll == InitAll /\ [][NextAll]_vars

\* python run_api_scripts.py
InitApi ==
    /\ PipelineAtRest
    /\ allPc = "idle"
    /\ status_summary = <<>>
    /\ allExit = "running"
    /\ apiPc = "loop"
    /\ apiNext = 1
    /\ results = <<>>
    /\ apiExit = "none"
    /\ started = <<>>
    /\ running = <<>>

SpecApi == InitApi /\ [][NextApi]_vars

----------------------------------------------------------------------------
(* Calls of collect_entries_no_truncation                                  *)

\* collect_entries_no_truncation(api_key, start_date, end_date, limit) for a
\* window with start_date <= end_date
InitLedger ==
    /\ csv = DefaultSources
    /\ cleanOut = AbsentClean
    /\ EngineStart
    /\ CashIdle
    /\ OrchIdle
    /\ \E start_date \in 1..MaxDay : \E end_date \in start_date..MaxDay :
           calls = <<<<start_date, end_date, 0>>>>
    /\ leaves = <<>>
    /\ ledgerResult = "running"

SpecLedger == InitLedger /\ [][NextLedger]_vars

\* the interpreter runs the next statement of the call, and requests.get
\* answers or raises within its timeout
SpecLedgerLive == SpecLedger /\ WF_vars(NextLedger)

----------------------------------------------------------------------------
(* Properties of the Cash Balance Reconstructor                            *)

\* the (window, entry) positions of the cash/bank entries of the ledger file
CashEntryPositions ==
    {<<i, j>> \in (DOMAIN rawLedger.data) \X (1..5) :
        /\ j \in DOMAIN rawLedger.data[i].entries
        /\ LET a == rawLedger.data[i].entries[j].account
           IN  Len(a) >= 2 /\ SubSeq(a, 1, 2) = <<"5", "7">>}

AmountOf(cell) == IF cell = <<>> THEN 0 ELSE cell[1]

RECURSIVE NetOver(_)
NetOver(positions) ==
    IF positions = {} THEN 0
    ELSE LET p == CHOOSE q \in positions : TRUE
             e == rawLedger.data[p[1]].entries[p[2]]
         IN  AmountOf(e.debit) - AmountOf(e.credit) + NetOver(positions \ {p})

\* sum(debit) - sum(credit) over the cash/bank entries of month m
NetChangeOf(m) ==
    NetOver({p \in CashEntryPositions : rawLedger.data[p[1]].month = m})

\* sum of net_change over the months strictly later than m
NetChangeAfter(m) ==
    NetOver({p \in CashEntryPositions :
                MonthDt(rawLedger.data[p[1]].month) > MonthDt(m)})

Anchor == load_snapshot_total_eur(rawSnapshot.data)

SeriesWritten == cashResult = "ok" /\ cleanOut.data # <<>>

MonthsAscending(data) ==
    \A i \in 1..(Len(data) - 1) : MonthDt(data[i].month) < MonthDt(data[i + 1].month)

WholeCents(v) == v % 10 = 0

\* C1 as stated: every month's balance is exactly the anchor minus the net
\* changes of all strictly later months, and the last month's balance is the
\* anchor exactly.
C1_ExactBalance ==
    SeriesWritten =>
        /\ MonthsAscending(cleanOut.data)
        /\ \A i \in DOMAIN cleanOut.data :
               cleanOut.data[i].cash_balance_eur
                   = Anchor - NetChangeAfter(cleanOut.data[i].month)
        /\ cleanOut.data[Len(cleanOut.data)].cash_balance_eur = Anchor

\* C1 (amended): with months ascending, every month's balance is the anchor
\* minus the net changes of all strictly later months, rounded to 2 decimals;
\* the last month's balance is the anchor rounded to 2 decimals, whatever
\* that month's own net change.
C1_RoundedBalance ==
    SeriesWritten =>
        /\ MonthsAscending(cleanOut.data)
        /\ \A i \in DOMAIN cleanOut.data :
               cleanOut.data[i].cash_balance_eur
                   = Round2(Anchor - NetChangeAfter(cleanOut.data[i].month))
        /\ cleanOut.data[Len(cleanOut.data)].cash_balance_eur = Round2(Anchor)

\* three months given latest-first, the last one with a net change of its own
C1_Witness ==
    /\ SeriesWritten
    /\ Len(cleanOut.data) = 3
    /\ Len(rawLedger.data) = 3
    /\ MonthDt(rawLedger.data[1].month) > MonthDt(rawLedger.data[2].month)
    /\ MonthDt(rawLedger.data[2].month) > MonthDt(rawLedger.data[3].month)
    /\ NetChangeOf(cleanOut.data[3].month) # 0
    /\ NetChangeAfter(cleanOut.data[1].month) # 0

\* C2 as stated: balance[i] - balance[i-1] over months ascending reproduces
\* net_change[i] exactly.
C2_RoundTripExact ==
    SeriesWritten =>
        \A i \in 2..Len(cleanOut.data) :
            cleanOut.data[i].cash_balance_eur - cleanOut.data[i - 1].cash_balance_eur
                = NetChangeOf(cleanOut.data[i].month)

AllWholeCents ==
    /\ WholeCents(Anchor)
    /\ \A i \in DOMAIN cleanOut.data : WholeCents(NetChangeOf(cleanOut.data[i].month))

\* C2 (amended): the difference of consecutive reconstructed balances is within
\* 0.01 of the later month's net change, and reproduces it exactly when the
\* anchor and every net change are whole-cent amounts (so that the rounding to
\* 2 decimals changes nothing).
C2_RoundTripRounded ==
    SeriesWritten =>
        \A i \in 2..Len(cleanOut.data) :
            LET diff == cleanOut.data[i].cash_balance_eur
                            - cleanOut.data[i - 1].cash_balance_eur
                net  == NetChangeOf(cleanOut.data[i].month)
            IN  /\ diff - net <= 10
                /\ net - diff <= 10
                /\ AllWholeCents => diff = net

\* whole-cent inputs, two months, a non-zero change recovered from the balances
C2_Witness ==
    /\ SeriesWritten
    /\ Len(cleanOut.data) >= 2
    /\ AllWholeCents
    /\ NetChangeOf(cleanOut.data[2].month) # 0
    /\ cleanOut.data[2].cash_balance_eur - cleanOut.data[1].cash_balance_eur
           = NetChangeOf(cleanOut.data[2].month)

InputsPresent == rawLedger.exists /\ rawSnapshot.exists

\* C3: with both files present, a readable snapshot and no cash/bank entry in
\* any window, the run ends normally having written the empty series with
\* columns month and cash_balance_eur.
C3_EmptySeriesNoError ==
    (/\ cashResult # "pending"
     /\ InputsPresent
     /\ HasBalanceColumn(rawSnapshot.data)
     /\ CashEntryPositions = {})
        => /\ cashResult = "ok"
           /\ cleanOut = [exists |-> TRUE, cols |-> <<"month", "cash_balance_eur">>,
                          data |-> <<>>]

WindowMonths == {rawLedger.data[i].month : i \in DOMAIN rawLedger.data}

\* C4: the written series has exactly one row for every month of the ledger
\* window set and no other row.
C4_OneRowPerWindowMonth ==
    cashResult = "ok" =>
        /\ {cleanOut.data[i].month : i \in DOMAIN cleanOut.data} = WindowMonths
        /\ Len(cleanOut.data) = Cardinality(WindowMonths)

\* C5: when the ledger-window file or the snapshot file is missing, the run
\* raises FileNotFoundError having opened no input, and the clean output file
\* is left exactly as it was (absent stays absent).
C5_MissingFileIsFatal ==
    [][(cashResult = "pending" /\ (~rawLedger.exists \/ ~rawSnapshot.exists))
          => /\ cashResult' = "FileNotFoundError"
             /\ cashOpened' = {}
             /\ cleanOut' = cleanOut]_vars

\* the ledger is present and empty, the snapshot is missing, no output yet
C5_Witness ==
    /\ cashResult = "FileNotFoundError"
    /\ rawLedger.exists /\ rawLedger.data = <<>>
    /\ ~rawSnapshot.exists
    /\ ~cleanOut.exists

----------------------------------------------------------------------------
(* Properties of the tagged costs                                          *)

\* run_pipeline has returned
Finished == pc = "done"

SourcePurchases == csv["purchases"].rows

SourceContacts == csv["contacts"].rows

\* the text of a cell, a null cell read as the empty text
TextOf(cell) == IF cell = NULL THEN <<>> ELSE cell[1]

\* the same text up to the case of its letters
SameLetters(a, b) ==
    Len(a) = Len(b) /\ \A i \in DOMAIN a : LowerChar(a[i]) = LowerChar(b[i])

HasTag(contact, T) ==
    LET tags == TextOf(contact["tags"])
    IN  \E i \in 1..Len(tags) :
            i + Len(T) - 1 <= Len(tags) /\ SameLetters(SubSeq(tags, i, i + Len(T) - 1), T)

IsSupplier(contact) == SameLetters(TextOf(contact["type"]), Str_supplier)

\* the purchase is confirmed and its contact is a supplier tagged T
Qualifies(p, T) ==
    /\ p["status"] = Some(1)
    /\ \E i \in DOMAIN SourceContacts :
           /\ SourceContacts[i]["id"] = p["contact"]
           /\ HasTag(SourceContacts[i], T)
           /\ IsSupplier(SourceContacts[i])

\* the purchases that count for bucket T in month k
Contributions(T, k) ==
    SelectSeq(SourcePurchases,
              LAMBDA p : Qualifies(p, T) /\ ensure_month_format(p["date"]) = k)

RECURSIVE TotalEur(_)
TotalEur(ps) == IF ps = <<>> THEN 0 ELSE ps[1]["total_eur"][1] + TotalEur(Tail(ps))

PurchaseMonths ==
    {ensure_month_format(SourcePurchases[i]["date"]) : i \in DOMAIN SourcePurchases}

\* every month with contributions has one row, and every row holds the sum of
\* the contributions of its month
BucketIsSum(t, bucket, T) ==
    /\ \A k \in PurchaseMonths :
           Contributions(T, k) # <<>> => Len(RowsOfMonth(t.rows, k)) = 1
    /\ \A i \in DOMAIN t.rows :
           t.rows[i][bucket] = Some(TotalEur(Contributions(T, t.rows[i]["month"])))

\* and there is no row for a month without contributions
BucketIsExactly(t, bucket, T) ==
    /\ BucketIsSum(t, bucket, T)
    /\ \A i \in DOMAIN t.rows : Contributions(T, t.rows[i]["month"]) # <<>>

\* C6  A purchase contributes its total_eur to bucket T of its month if and
\* only if its status is 1 and its contact is a contact whose tags (null read
\* as empty) contain T whatever the case of the letters and whose type is
\* "supplier" whatever the case: the opex, cogs and financial_costs tables
\* hold one row per month with such purchases, the sum of exactly those
\* purchases, and the cac_costs of calculate_cac is that sum in every row.
C6_TaggedCostsAreSums ==
    Finished =>
        /\ BucketIsExactly(mt["opex"], "opex", Str_opex)
        /\ BucketIsExactly(mt["cogs"], "cogs", <<"c", "o", "g", "s">>)
        /\ BucketIsExactly(mt["financial_costs"], "financial_costs", LowerStr(Str_Costes))
        /\ BucketIsSum(mt["cac"], "cac_costs", <<"c", "a", "c">>)

\* a supplier tagged "OPEX, Vendor" with two confirmed purchases in March
C6_Witness ==
    /\ Finished
    /\ SourceContacts = <<Contact("c1", Some(Str_OPEX_Vendor), Some(Str_supplier))>>
    /\ SourcePurchases = <<P_c3_june, P_c1_march, P_c1_late_march>>
    /\ mt["opex"].rows = <<[month |-> <<2024, 3>>, opex |-> Some(125000)]>>

NoContribution(T) == \A i \in DOMAIN SourcePurchases : ~Qualifies(SourcePurchases[i], T)

\* the final table has the column and 0 in every row of it
ShowsZero(bucket) ==
    /\ HasCol(df_final, bucket)
    /\ \A i \in DOMAIN df_final.rows : df_final.rows[i][bucket] = Some(0)

\* C7  When no confirmed purchase matches the tag, the calculator returns a
\* table with the columns month and the bucket name and no row, the run does
\* not fail, and the final table shows 0 for the bucket in every row.
C7_EmptyBucketIsZeroFilled ==
    /\ pc # "failed"
    /\ Finished =>
        /\ pipeResult = "ok"
        /\ NoContribution(Str_opex) =>
               mt["opex"] = Table(<<"month", "opex">>, <<>>) /\ ShowsZero("opex")
        /\ NoContribution(<<"c", "o", "g", "s">>) =>
               mt["cogs"] = Table(<<"month", "cogs">>, <<>>) /\ ShowsZero("cogs")
        /\ NoContribution(LowerStr(Str_Costes)) =>
               /\ mt["financial_costs"] = Table(<<"month", "financial_costs">>, <<>>)
               /\ ShowsZero("financial_costs")
        /\ NoContribution(<<"c", "a", "c">>) => ShowsZero("cac_costs")

\* the only purchase of the opex supplier is a draft
C7_Witness ==
    /\ Finished
    /\ SourceContacts = <<Contact("c1", Some(Str_opex), Some(Str_Supplier))>>
    /\ SourcePurchases = <<P_c1_draft>>
    /\ mt["opex"].rows = <<>>
    /\ df_final.rows # <<>>
    /\ ShowsZero("opex")

----------------------------------------------------------------------------
(* Properties of the MRR components                                        *)

SourceMrrRows == csv["mrr_components"].rows

MrrMonths == {ensure_month_format(SourceMrrRows[i]["date"]) : i \in DOMAIN SourceMrrRows}

\* the rows of the MRR components table that fall in month k
MonthRows(k) == SelectSeq(SourceMrrRows, LAMBDA r : ensure_month_format(r["date"]) = k)

\* the sum of column c, a missing value counting for nothing
RECURSIVE Total(_, _)
Total(rows, c) ==
    IF rows = <<>> THEN 0
    ELSE (IF rows[1][c] = NULL THEN 0 ELSE rows[1][c][1]) + Total(Tail(rows), c)

\* the sum of the absolute values of column c
RECURSIVE TotalAbs(_, _)
TotalAbs(rows, c) ==
    IF rows = <<>> THEN 0
    ELSE (IF rows[1][c] = NULL THEN 0
          ELSE IF rows[1][c][1] < 0 THEN -rows[1][c][1] ELSE rows[1][c][1])
         + TotalAbs(Tail(rows), c)

\* table t has one row for month k, and it holds v in column c
OneRow(t, k, c, v) ==
    RowsOfMonth(t.rows, k) = <<[x \in {"month", c} |-> IF x = "month" THEN k ELSE Some(v)]>>

\* C8  For every month of the MRR components table, mrr and new_mrr are the
\* sums of the month's rows, churned_mrr and contraction_mrr are the sums of
\* the absolute values of the month's rows, and arr is mrr * 12.
C8_MonthlyMrrSums ==
    Finished =>
        \A k \in MrrMonths :
            /\ OneRow(mt["mrr"], k, "mrr", Total(MonthRows(k), "mrr"))
            /\ OneRow(mt["new_mrr"], k, "new_mrr", Total(MonthRows(k), "mrr-new-business"))
            /\ OneRow(mt["churned_mrr"], k, "churned_mrr",
                      TotalAbs(MonthRows(k), "mrr-churn"))
            /\ OneRow(mt["contraction_mrr"], k, "contraction_mrr",
                      TotalAbs(MonthRows(k), "mrr-contraction"))
            /\ OneRow(mt["arr"], k, "arr", 12 * Total(MonthRows(k), "mrr"))

\* two rows of March with mrr-new-business 100 and 50 and mrr-churn -20 and 0
C8_Witness ==
    /\ Finished
    /\ SourceMrrRows = <<M_march_5, M_march_20>>
    /\ mt["new_mrr"].rows = <<[month |-> <<2024, 3>>, new_mrr |-> Some(150000)]>>
    /\ mt["churned_mrr"].rows = <<[month |-> <<2024, 3>>, churned_mrr |-> Some(20000)]>>
    /\ mt["arr"].rows = <<[month |-> <<2024, 3>>, arr |-> Some(18000000)]>>

NonNegativeIn(t, c) == \A i \in DOMAIN t.rows : t.rows[i][c][1] >= 0

\* the month string of a row of the final table
FinalKey(month) == IF month = NULL THEN NaTStr ELSE month

\* no row of month k reports a negative mrr-new-business
NewBusinessNonNegative(k) ==
    \A i \in DOMAIN SourceMrrRows :
        ensure_month_format(SourceMrrRows[i]["date"]) = k =>
            \/ SourceMrrRows[i]["mrr-new-business"] = NULL
            \/ SourceMrrRows[i]["mrr-new-business"][1] >= 0

\* every bucket total of every month is non-negative, in the metric tables
\* and in the final table, whatever the input rows
C9_AllBucketsNonNegative ==
    Finished =>
        \A c \in {"new_mrr", "expansion_mrr", "contraction_mrr", "churned_mrr"} :
            NonNegativeIn(mt[c], c) /\ NonNegativeIn(df_final, c)

\* C9  For any input rows the totals expansion_mrr, contraction_mrr and
\* churned_mrr of every month are non-negative in the metric tables and in the
\* final table; new_mrr is the signed sum, non-negative for a month none of
\* whose rows reports a negative mrr-new-business.
C9_MagnitudeBucketsNonNegative ==
    Finished =>
        /\ \A c \in {"expansion_mrr", "contraction_mrr", "churned_mrr"} :
               NonNegativeIn(mt[c], c) /\ NonNegativeIn(df_final, c)
        /\ \A i \in DOMAIN mt["new_mrr"].rows :
               NewBusinessNonNegative(mt["new_mrr"].rows[i]["month"]) =>
                   mt["new_mrr"].rows[i]["new_mrr"][1] >= 0
        /\ \A i \in DOMAIN df_final.rows :
               NewBusinessNonNegative(FinalKey(df_final.rows[i]["month"])) =>
                   df_final.rows[i]["new_mrr"][1] >= 0

\* April reports a negative expansion, contraction and churn of both signs
C9_Witness ==
    /\ Finished
    /\ SourceMrrRows = <<M_march_20, M_april_1, M_april_10>>
    /\ mt["expansion_mrr"].rows = <<[month |-> <<2024, 3>>, expansion_mrr |-> Some(30000)],
                                    [month |-> <<2024, 4>>, expansion_mrr |-> Some(25000)]>>
    /\ mt["contraction_mrr"].rows[2]["contraction_mrr"] = Some(40000)
    /\ mt["new_mrr"].rows[1]["new_mrr"] = Some(50000)

\* C10  In every row of the final table, net_new_mrr equals
\* new_mrr + expansion_mrr - contraction_mrr - churned_mrr of the same row,
\* whatever the MRR components input.
C10_NetNewFromRow ==
    Finished =>
        \A i \in DOMAIN df_final.rows :
            LET r == df_final.rows[i]
            IN  r["net_new_mrr"][1] = r["new_mrr"][1] + r["expansion_mrr"][1]
                                      - r["contraction_mrr"][1] - r["churned_mrr"][1]

----------------------------------------------------------------------------
(* Properties of CAC, the ratio, EBITDA, burn and runway                   *)

SourceCustomers == csv["customers_raw"].rows

\* the customers with an acquisition date
Acquired == {i \in DOMAIN SourceCustomers : SourceCustomers[i]["customer-since"] # NULL}

AcquisitionMonths ==
    {ensure_month_format(SourceCustomers[i]["customer-since"]) : i \in Acquired}

\* the distinct customers acquired in month k
AcquiredIn(k) ==
    {SourceCustomers[i]["uuid"] :
        i \in {j \in Acquired : ensure_month_format(SourceCustomers[j]["customer-since"]) = k}}

CacSpendMonths == {k \in PurchaseMonths : Contributions(Str_cac, k) # <<>>}

\* the cell holds the quotient num / den
IsQuotient(cell, num, den) ==
    /\ cell # NULL
    /\ cell[1][2] > 0
    /\ cell[1][1] * den = num * cell[1][2]

IsZeroQuotient(cell) == cell # NULL /\ cell[1][1] = 0

\* C11  calculate_cac returns one row for every month with confirmed spend of
\* a cac-tagged supplier or with a customer acquired, and no other row;
\* new_customers is the number of distinct uuids acquired in the month
\* (customers without customer-since counted nowhere), cac_costs the spend of
\* the month, a missing side 0, and cac is cac_costs / new_customers when
\* new_customers > 0 and 0 otherwise.
C11_CacPerMonth ==
    Finished =>
        /\ \A k \in AcquisitionMonths \cup CacSpendMonths :
               Len(RowsOfMonth(mt["cac"].rows, k)) = 1
        /\ \A i \in DOMAIN mt["cac"].rows :
               LET r == mt["cac"].rows[i]
                   n == Cardinality(AcquiredIn(r["month"]))
                   spend == TotalEur(Contributions(Str_cac, r["month"]))
               IN  /\ r["month"] \in AcquisitionMonths \cup CacSpendMonths
                   /\ r["new_customers"] = Some(n)
                   /\ r["cac_costs"] = Some(spend)
                   /\ IF n > 0 THEN IsQuotient(r["cac"], spend, n)
                      ELSE IsZeroQuotient(r["cac"])

\* March has a customer and no spend, June two customers (one listed twice)
\* and a credit note, July spend and no customer
C11_Witness ==
    /\ Finished
    /\ Len(SourceCustomers) = 5
    /\ mt["cac"].rows =
           << [month |-> <<2024, 3>>, new_customers |-> Some(1), cac_costs |-> Some(0),
               cac |-> Some(<<0, 1>>)],
              [month |-> <<2024, 6>>, new_customers |-> Some(2), cac_costs |-> Some(-30000),
               cac |-> Some(<<-15000, 1>>)],
              [month |-> <<2024, 7>>, new_customers |-> Some(0), cac_costs |-> Some(80000),
               cac |-> Some(<<0, 1>>)] >>

\* the value of column c that table t holds for month k, 0 when it has no row
ValueIn(t, c, k) ==
    IF RowsOfMonth(t.rows, k) = <<>> THEN ZeroOf(c) ELSE RowsOfMonth(t.rows, k)[1][c]

\* a run ends in an exception only when a source table lacks a column: no
\* calculator raises on the values it is given
RaisesOnlyForMissingColumn ==
    pc = "failed" => pipeResult \in {"ValueError", "KeyError"} /\ pipeError # NoError

\* C12  For every month in the union of the LTV and CAC tables, cac_ltv_ratio
\* is ltv / cac whenever cac is not 0, of either sign, and 0 when cac is 0;
\* it is never NaN and the calculator does not raise.
C12_RatioForAnySign ==
    /\ RaisesOnlyForMissingColumn
    /\ Finished =>
        /\ \A k \in MonthsOf(mt["ltv"].rows) \cup MonthsOf(mt["cac"].rows) :
               RowsOfMonth(mt["cac_ltv_ratio"].rows, k) # <<>>
        /\ \A i \in DOMAIN mt["cac_ltv_ratio"].rows :
               LET r   == mt["cac_ltv_ratio"].rows[i]
                   ltv == ValueIn(mt["ltv"], "ltv", r["month"])[1]
                   cac == ValueIn(mt["cac"], "cac", r["month"])[1]
               IN  IF cac[1] # 0
                   THEN IsQuotient(r["cac_ltv_ratio"], ltv * cac[2], cac[1])
                   ELSE IsZeroQuotient(r["cac_ltv_ratio"])

\* the months of the five tables calculate_ebitda merges
EbitdaMonths ==
    MonthsOf(mt["mrr"].rows) \cup MonthsOf(mt["opex"].rows) \cup MonthsOf(mt["cogs"].rows)
        \cup MonthsOf(mt["financial_costs"].rows) \cup MonthsOf(mt["cac"].rows)

\* mrr - (opex + cogs + financial_costs + cac_costs) of month k, a component
\* without a row for the month taken as 0
ExpectedEbitda(k) ==
    ValueIn(mt["mrr"], "mrr", k)[1]
        - ( ValueIn(mt["opex"], "opex", k)[1] + ValueIn(mt["cogs"], "cogs", k)[1]
            + ValueIn(mt["financial_costs"], "financial_costs", k)[1]
            + ValueIn(mt["cac"], "cac_costs", k)[1] )

\* C13  calculate_ebitda returns exactly one row for every month in the union
\* of the months of the mrr, opex, cogs, financial_costs and cac tables, and
\* no other row; its ebitda is mrr - (opex + cogs + financial_costs +
\* cac_costs), a component missing for the month taken as 0.
C13_EbitdaPerMonth ==
    Finished =>
        /\ MonthsOf(mt["ebitda"].rows) = EbitdaMonths
        /\ \A k \in EbitdaMonths :
               RowsOfMonth(mt["ebitda"].rows, k) =
                   <<[month |-> k, ebitda |-> Some(ExpectedEbitda(k))]>>

\* March: mrr 1000, opex 300, cogs 200, financial costs 50, cac costs 50
C13_Witness ==
    /\ Finished
    /\ ValueIn(mt["mrr"], "mrr", <<2024, 3>>) = Some(1000000)
    /\ ValueIn(mt["opex"], "opex", <<2024, 3>>) = Some(300000)
    /\ ValueIn(mt["cogs"], "cogs", <<2024, 3>>) = Some(200000)
    /\ ValueIn(mt["financial_costs"], "financial_costs", <<2024, 3>>) = Some(50000)
    /\ ValueIn(mt["cac"], "cac_costs", <<2024, 3>>) = Some(50000)
    /\ RowsOfMonth(mt["ebitda"].rows, <<2024, 3>>) =
           <<[month |-> <<2024, 3>>, ebitda |-> Some(400000)]>>
    /\ \E k \in EbitdaMonths : RowsOfMonth(mt["mrr"].rows, k) = <<>>

\* C14  For every month, burn_rate is the absolute value of the month's
\* ebitda: the burn rate table has the rows of the ebitda table, month by
\* month, and no burn_rate is negative.
C14_BurnRateIsMagnitude ==
    Finished =>
        /\ Len(mt["burn_rate"].rows) = Len(mt["ebitda"].rows)
        /\ \A i \in DOMAIN mt["burn_rate"].rows :
               LET e == mt["ebitda"].rows[i]["ebitda"][1]
                   b == mt["burn_rate"].rows[i]
               IN  /\ b["month"] = mt["ebitda"].rows[i]["month"]
                   /\ b["burn_rate"][1] >= 0
                   /\ b["burn_rate"][1] = (IF e < 0 THEN -e ELSE e)

\* a month with ebitda 400 and a month with a loss
C14_Witness ==
    /\ Finished
    /\ ValueIn(mt["ebitda"], "ebitda", <<2024, 3>>) = Some(400000)
    /\ ValueIn(mt["burn_rate"], "burn_rate", <<2024, 3>>) = Some(400000)
    /\ \E i \in DOMAIN mt["ebitda"].rows :
           /\ mt["ebitda"].rows[i]["ebitda"][1] < 0
           /\ mt["burn_rate"].rows[i]["burn_rate"][1] > 0

\* the cash source is the constant of the command line
ConstantCash == frames["treasury"].rows = <<>>

\* the last balance the treasury series reports for month k, 0 when none
TreasuryCash(k) ==
    LET rs == SelectSeq(frames["treasury"].rows,
                        LAMBDA r : ensure_month_format(r["month"]) = k)
    IN  IF rs = <<>> THEN Some(0) ELSE rs[Len(rs)]["cash_balance_eur"]

TreasuryMonths ==
    {ensure_month_format(frames["treasury"].rows[i]["month"]) :
        i \in DOMAIN frames["treasury"].rows}

RunwayMonths ==
    IF ConstantCash THEN MonthsOf(mt["burn_rate"].rows)
    ELSE MonthsOf(mt["burn_rate"].rows) \cup TreasuryMonths

\* the month has a row in the burn rate table
HasBurn(k) == RowsOfMonth(mt["burn_rate"].rows, k) # <<>>

BurnOf(k) == RowsOfMonth(mt["burn_rate"].rows, k)[1]["burn_rate"][1]

\* runway, a number of hundredths, is cash / burn to the nearest hundredth
IsRoundedRatio(runway, cash, burn) ==
    /\ runway # NULL
    /\ 2 * Abs(runway[1] * burn - 100 * cash) <= Abs(burn)

\* the result has one row per month, with the cash of the month
RunwayRowsAndCash ==
    /\ MonthsOf(mt["runway"].rows) = RunwayMonths
    /\ \A k \in RunwayMonths :
           /\ Len(RowsOfMonth(mt["runway"].rows, k)) = 1
           /\ RowsOfMonth(mt["runway"].rows, k)[1]["cash_balance_eur"] =
                  (IF ConstantCash THEN Some(cash_balance) ELSE TreasuryCash(k))

\* for every month of the result that has a burn rate, runway is exactly
\* cash_balance_eur / burn_rate when burn_rate is not 0 and null when it is 0
C15_RunwayExactRatio ==
    /\ RaisesOnlyForMissingColumn
    /\ Finished =>
        /\ RunwayRowsAndCash
        /\ \A i \in DOMAIN mt["runway"].rows :
               LET r == mt["runway"].rows[i]
               IN  HasBurn(r["month"]) =>
                       IF BurnOf(r["month"]) # 0
                       THEN /\ r["runway"] # NULL
                            /\ r["runway"][1] * BurnOf(r["month"])
                                   = 100 * r["cash_balance_eur"][1]
                       ELSE r["runway"] = NULL

\* C15  For every month of the result of calculate_runway, with the constant
\* cash and with the treasury series: runway is cash_balance_eur / burn_rate
\* rounded to 2 decimals when the month's burn_rate is not 0, and null when
\* burn_rate is 0 or when only the treasury series has the month; the
\* calculator does not raise.
C15_RunwayRoundedRatio ==
    /\ RaisesOnlyForMissingColumn
    /\ Finished =>
        /\ RunwayRowsAndCash
        /\ \A i \in DOMAIN mt["runway"].rows :
               LET r == mt["runway"].rows[i]
               IN  IF HasBurn(r["month"]) /\ BurnOf(r["month"]) # 0
                   THEN IsRoundedRatio(r["runway"], r["cash_balance_eur"][1],
                                       BurnOf(r["month"]))
                   ELSE r["runway"] = NULL

\* the treasury series with a month without burn, a month whose ratio has
\* more than 2 decimals, and a month of its own
C15_Witness ==
    /\ Finished
    /\ ~ConstantCash
    /\ \E i \in DOMAIN mt["runway"].rows :
           LET r == mt["runway"].rows[i]
           IN  HasBurn(r["month"]) /\ BurnOf(r["month"]) = 0 /\ r["runway"] = NULL
    /\ \E i \in DOMAIN mt["runway"].rows :
           LET r == mt["runway"].rows[i]
           IN  /\ HasBurn(r["month"]) /\ BurnOf(r["month"]) # 0
               /\ r["runway"][1] * BurnOf(r["month"]) # 100 * r["cash_balance_eur"][1]
    /\ \E i \in DOMAIN mt["runway"].rows : ~HasBurn(mt["runway"].rows[i]["month"])

----------------------------------------------------------------------------
(* Properties of the final table                                           *)

\* C16  In the final table, after the merge and its zero fill, every month
\* whose burn_rate is 0 still has a null runway, never 0.
C16_FinalRunwayNullWithoutBurn ==
    Finished =>
        \A i \in DOMAIN df_final.rows :
            df_final.rows[i]["burn_rate"] = Some(0) => df_final.rows[i]["runway"] = NULL

\* the month strings of the 21 metric tables
AllMetricMonths == UNION {MonthsOf(mt[n].rows) : n \in Range(MetricNames)}

\* the rows of the final table for month string k
FinalRowsOf(k) == SelectSeq(df_final.rows, LAMBDA r : FinalKey(r["month"]) = k)

\* month a is before month b; a row without a month comes after every month
Before(a, b) ==
    /\ a # NULL
    /\ b = NULL \/ a[1] < b[1] \/ (a[1] = b[1] /\ a[2] < b[2])

\* the columns of metric table n hold 0 in the final rows of the months for
\* which n has no row
ZeroWhereMissing(n) ==
    \A i \in DOMAIN df_final.rows :
        LET r == df_final.rows[i]
        IN  RowsOfMonth(mt[n].rows, FinalKey(r["month"])) = <<>> =>
                \A j \in DOMAIN mt[n].cols :
                    (mt[n].cols[j] # "month" /\ HasCol(df_final, mt[n].cols[j]))
                        => r[mt[n].cols[j]] = ZeroOf(mt[n].cols[j])

\* C17  The final table contains exactly one row for each month in the union
\* of the months of the 21 metric tables and no other row; a month missing
\* from a metric table has 0 in the columns of that table; the rows are in
\* strictly ascending order of month.
C17_OneRowPerMonthAscending ==
    Finished =>
        /\ \A k \in AllMetricMonths : Len(FinalRowsOf(k)) = 1
        /\ \A i \in DOMAIN df_final.rows :
               FinalKey(df_final.rows[i]["month"]) \in AllMetricMonths
        /\ \A n \in Range(MetricNames) : ZeroWhereMissing(n)
        /\ \A i \in 1..(Len(df_final.rows) - 1) :
               Before(df_final.rows[i]["month"], df_final.rows[i + 1]["month"])

\* C18  The columns of the persisted final table are exactly the preferred
\* list, in the preferred order, on every run; the merged columns outside the
\* list are dropped and the run does not fail for them.
C18_ColumnsArePreferredList ==
    Finished =>
        /\ pipeResult = "ok"
        /\ finalCsv.exists
        /\ finalCsv.cols = preferred_order

SourceCmMetrics == csv["cm_metrics"].rows

\* the final table reports value column c with the value the upstream metrics
\* table has in column upstream, for every row of that table
ReportsUpstream(c, upstream) ==
    /\ HasCol(df_final, c)
    /\ \A i \in DOMAIN SourceCmMetrics :
           \E j \in DOMAIN df_final.rows :
               /\ FinalKey(df_final.rows[j]["month"])
                      = ensure_month_format(SourceCmMetrics[i]["month_start"])
               /\ df_final.rows[j][c] = SourceCmMetrics[i][upstream]

\* C19  calculate_customer_churn_rate and calculate_revenue_churn_rate return
\* tables whose value columns are named customer_churn_rate and
\* revenue_churn_rate, and the final table holds both columns with the
\* upstream value for every month of the upstream metrics table.
C19_ChurnRatesReported ==
    Finished =>
        /\ mt["customer_churn_rate"].cols = <<"month", "customer_churn_rate">>
        /\ mt["revenue_churn_rate"].cols = <<"month", "revenue_churn_rate">>
        /\ ReportsUpstream("customer_churn_rate", "customer-churn-rate")
        /\ ReportsUpstream("revenue_churn_rate", "mrr-churn-rate")

----------------------------------------------------------------------------
(* Properties of a run over a source table that lacks a column             *)

\* the name validate_columns is given for each source table
DfNames ==
    [n \in {"contacts", "purchases", "cm_metrics"} |->
        CASE n = "contacts" -> "Contacts"
          [] n = "purchases" -> "Purchases"
          [] n = "cm_metrics" -> "ChartMogul Metrics"]

\* the columns the source table n lacks among those the calculators use
Lacking(n) == {c \in ColumnsUsed[n] : ~HasCol(csv[n], c)}

LacksRequiredColumn == \E n \in DOMAIN ColumnsUsed : Lacking(n) # {}

\* the error raised names a source table and lists columns, all of them
\* columns that table lacks
NamesTableAndColumns ==
    /\ pipeResult = "ValueError"
    /\ \E n \in DOMAIN DfNames :
           /\ pipeError[1] = DfNames[n]
           /\ pipeError[2] # <<>>
           /\ Range(pipeError[2]) \subseteq Lacking(n)

\* C20: when a source table lacks a column the metrics engine requires of it
\* (Purchases: date, contact, total, total_eur, status; Contacts: id, tags,
\* type; Customers: uuid, customer-since; upstream metrics: month_start, arpa,
\* customers, customer-churn-rate, mrr-churn-rate, ltv), the run does not
\* finish, no output file is written, and the error that ends it names the
\* table and lists the missing columns
C20_MissingColumnNamed ==
    LacksRequiredColumn =>
        /\ pc # "done"
        /\ ~finalCsv.exists
        /\ pc = "failed" => NamesTableAndColumns

----------------------------------------------------------------------------
(* Properties of the source tables during a run                            *)

\* the source tables that are passed to calculators
CalculatorInputs == {"mrr_components", "contacts", "purchases", "customers_raw", "cm_metrics"}

\* the table n that run_pipeline holds is the table that was read
AsLoaded(n) == frames[n] = csv[n]

\* C21: once the source tables are loaded, after any calculator call and after
\* the whole sequence of calls, every source table passed to a calculator (MRR
\* components, contacts, purchases, customers, upstream metrics) is equal to
\* its value when loaded
C21_SourceTablesReadOnly ==
    frames # NoFrames => \A n \in CalculatorInputs : AsLoaded(n)

----------------------------------------------------------------------------
(* Properties of the month keys of the metric tables                       *)

\* the table has at most one row for each month it holds
OneRowPerMonth(t) ==
    \A k \in MonthsOf(t.rows) : Len(RowsOfMonth(t.rows, k)) <= 1

\* C22: every metric table a calculator has returned has at most one row per
\* month, for any input, the tables of calculate_arpa, calculate_customers,
\* calculate_customer_churn_rate, calculate_revenue_churn_rate and
\* calculate_ltv included when the upstream metrics table holds several rows
\* for the same month
C22_OneRowPerMonthKey ==
    \A i \in DOMAIN MetricNames : OneRowPerMonth(mt[MetricNames[i]])

----------------------------------------------------------------------------
(* Properties of the orchestrators                                         *)

\* the statuses run_all.py has recorded
RecordedStatuses == {status_summary[i][2] : i \in DOMAIN status_summary}

\* C23: when the extract/transform script or the metrics script ends with a
\* non-zero exit code or cannot be run, the orchestrated run does not end
\* with exit code 0 and is not reported as completed
C23_FailedStepFailsTheRun ==
    allExit = "0" => RecordedStatuses \subseteq {"SUCCESS"}

\* C24: the metrics script is started only after the extract/transform script
\* has ended, and only if it succeeded
C24_MetricsOnlyAfterSuccess ==
    (\E i \in DOMAIN started : started[i] = METRICS_SCRIPT) =>
        /\ running = <<>>
        /\ status_summary # <<>>
        /\ status_summary[1] = <<API_SCRIPT, "SUCCESS">>

\* the scripts of the list that were executed, in the order of results
RECURSIVE Executed(_)
Executed(rs) ==
    IF rs = <<>> THEN <<>>
    ELSE IF rs[Len(rs)][2] = "NOT FOUND" THEN Executed(SubSeq(rs, 1, Len(rs) - 1))
    ELSE Append(Executed(SubSeq(rs, 1, Len(rs) - 1)), rs[Len(rs)][1])

\* C25: run_api_scripts.py runs its scripts one at a time in the order of the
\* list, each starting only after the previous one ended; as soon as one
\* script has status FAILED no later script is started and the process exits
\* with code 1
C25_InOrderStopAtFailure ==
    /\ Len(running) <= 1
    /\ \A i \in DOMAIN results : results[i][1] = scripts[i]
    /\ started = Executed(results) \o running
    /\ \A i \in DOMAIN results :
           results[i][2] = "FAILED" =>
               /\ i = Len(results)
               /\ running = <<>>
               /\ apiPc = "exited"
               /\ apiExit = "1"

\* the eighth script fails after seven that succeeded
C25_Witness ==
    /\ apiPc = "exited"
    /\ apiExit = "1"
    /\ Len(results) = 8
    /\ results[8][2] = "FAILED"
    /\ \A i \in 1..7 : results[i][2] = "SUCCESS"
    /\ Len(started) = 8

\* C26: run_api_scripts.py ends with exit code 0 only if every script of the
\* list was executed and succeeded; a script recorded as NOT FOUND does not
\* let it end with exit code 0
C26_SuccessMeansAllRan ==
    apiExit = "0" =>
        /\ Len(results) = Len(scripts)
        /\ \A i \in DOMAIN results : results[i] = <<scripts[i], "SUCCESS">>

LedgerExtractor == "data_pipeline/HD/Extract/extract_HD_daily_ledger.py"

TreasuryExtractor == "data_pipeline/HD/Extract/extract_HD_treasury.py"

CashReconstructor == "data_pipeline/HD/Transform/transform_HD_daily_ledger.py"

\* script a was started, and before script b
StartedBefore(a, b) ==
    \E i, j \in DOMAIN started : i < j /\ started[i] = a /\ started[j] = b

\* C27: in an orchestrated run the ledger window extractor, the treasury
\* snapshot extractor and the cash balance reconstructor have been started
\* before the metrics script, so the treasury clean file the metrics engine
\* reads is written by the same run
C27_CashSeriesBuiltBeforeMetrics ==
    (\E i \in DOMAIN started : started[i] = METRICS_SCRIPT) =>
        /\ StartedBefore(LedgerExtractor, CashReconstructor)
        /\ StartedBefore(TreasuryExtractor, CashReconstructor)
        /\ StartedBefore(CashReconstructor, METRICS_SCRIPT)

----------------------------------------------------------------------------
(* Properties of the cash source of the runway                             *)

\* no reconstructed treasury series is available to the run
NoTreasurySeries == ~cleanOut.exists \/ cleanOut.data = <<>>

\* the months of the rows of the treasury clean file
SeriesMonths == {ensure_month_format(cleanOut.data[i].month) : i \in DOMAIN cleanOut.data}

\* the balance of the last row the treasury clean file holds for month k
LastBalanceOf(k) ==
    LET rs == SelectSeq(cleanOut.data, LAMBDA r : ensure_month_format(r.month) = k)
    IN  Some(rs[Len(rs)].cash_balance_eur)

\* the run has computed the runway, every month with the constant as its cash
RunwayOnConstant ==
    \A i \in DOMAIN mt["runway"].rows :
        mt["runway"].rows[i]["cash_balance_eur"] = Some(cash_balance)

\* every month of the series has one row in the runway table, with the last
\* balance of the month as its cash
RunwayOnSeries ==
    \A k \in SeriesMonths :
        /\ Len(RowsOfMonth(mt["runway"].rows, k)) = 1
        /\ RowsOfMonth(mt["runway"].rows, k)[1]["cash_balance_eur"] = LastBalanceOf(k)

\* C28: the constant cash balance is the cash of every month's runway exactly
\* when no treasury series is available to the run, the treasury file being
\* absent or present without rows, and the run then computes the runway; when
\* the series has a row, the cash of each month of the series is the balance
\* of the last row of that month
C28_ConstantCashOnlyWithoutSeries ==
    /\ NoTreasurySeries => pc # "failed"
    /\ Finished => IF NoTreasurySeries THEN RunwayOnConstant ELSE RunwayOnSeries

----------------------------------------------------------------------------
(* Properties of the month keys                                            *)

\* a month string "YYYY-MM" of the calendar
CalendarMonth(k) == k # NaTStr /\ k # NULL /\ Len(k) = 2 /\ k[2] \in 1..12

ValidMonthKeys(t) == \A i \in DOMAIN t.rows : CalendarMonth(t.rows[i]["month"])

\* C29: every month key of every metric table and of the final table is a
\* calendar month in YYYY-MM form; a source row whose date is missing or
\* cannot be parsed creates no row, and the run does not fail because of it
C29_MonthKeysAreCalendarMonths ==
    /\ \A i \in DOMAIN MetricNames : ValidMonthKeys(mt[MetricNames[i]])
    /\ ValidMonthKeys(df_final)
    /\ RaisesOnlyForMissingColumn

----------------------------------------------------------------------------
(* Properties of the ledger window bisection                               *)

\* the call has ended, by a return or by an exception
LedgerEnded == ledgerResult \in {"returned", "RuntimeError"}

\* the recursion terminates, for any window and any answers of the API
LedgerTerminates == <>LedgerEnded

\* the pending windows are disjoint, in date order, each with start <= end,
\* and the depth stays within the days of the first window
LedgerWindowsShrink ==
    /\ \A i \in DOMAIN calls : calls[i][1] <= calls[i][2] /\ calls[i][3] <= MaxDay
    /\ \A i \in DOMAIN calls : i > 1 => calls[i - 1][2] < calls[i][1]

\* C30: once collect_entries_no_truncation has returned, every window whose
\* entries it returned as fetched yielded fewer than limit entries: no capped
\* window is returned as it is (the recursion terminating is LedgerTerminates)
C30_NoCappedLeafReturned ==
    ledgerResult = "returned" =>
        \A i \in DOMAIN leaves : leaves[i].entries < limit

====
